---- MODULE Spec2Model ----
(***************************************************************************)
(* ChatFeedManager: the router/bank, the gamble FIFO, the file bus with    *)
(* its byte-offset cursors, and the active/standby leader lock of the      *)
(* music worker.                                                           *)
(*                                                                         *)
(* Python methods that mutate `self` are operators from a state record S   *)
(* (the RouterBank object together with the files it writes) to the new    *)
(* state record; an action applies one handler and installs the result.    *)
(* time.time() is the variable `now`, in whole seconds.                    *)
(***************************************************************************)
EXTENDS Integers, Sequences, FiniteSets, TLC

\* ------------------------------------------------------------------ bounds
MaxEvents == 2
MaxTicks == 1
StartTime == 1000

\* ------------------------------------------------- configuration (inputs)
Users == {"yt:ann", "yt:bob", "yt:cat"}
InitPoints == {10}
TimeSteps == {60}

points_per_minute_active == 1
points_per_message == 2
points_per_like == 1
points_per_share == 5
active_window_seconds == 300
AWARD_SCAN_SEC == 5
recent_cmd_window_exact_sec == 15
recent_cmd_window_loose_sec == 2
DEFAULT_BET == 50

\* commands.txt: one gamble command, one paid music command, one manager command
manager_commands ==
    [points |-> [command |-> "points", bot |-> "", action |-> "", min_tier |-> "EVERYONE",
                 cooldown_seconds |-> 0, cooldown_bypass_tier |-> "", cost_points |-> 0]]

commands ==
    [slots |-> [command |-> "slots", bot |-> "gamble", action |-> "slots", min_tier |-> "EVERYONE",
                cooldown_seconds |-> 0, cooldown_bypass_tier |-> "", cost_points |-> 0],
     sr    |-> [command |-> "sr", bot |-> "spotify", action |-> "sr", min_tier |-> "EVERYONE",
                cooldown_seconds |-> 2, cooldown_bypass_tier |-> "MOD", cost_points |-> 3],
     skip  |-> [command |-> "skip", bot |-> "spotify", action |-> "skip", min_tier |-> "MOD",
                cooldown_seconds |-> 2, cooldown_bypass_tier |-> "", cost_points |-> 0],
     dice  |-> [command |-> "dice", bot |-> "gamble", action |-> "dice", min_tier |-> "EVERYONE",
                cooldown_seconds |-> 0, cooldown_bypass_tier |-> "", cost_points |-> 0]]

CmdNames == DOMAIN manager_commands \cup DOMAIN commands
bots == {"gamble", "spotify", "tts"}

\* ------------------------------------------------------------------ tiers
TIER_ORDER == <<"EVERYONE", "SUB", "VIP", "MOD", "BROADCASTER">>

TIER_RANK(t) ==
    IF \E i \in 1..Len(TIER_ORDER) : TIER_ORDER[i] = t
    THEN (CHOOSE i \in 1..Len(TIER_ORDER) : TIER_ORDER[i] = t) - 1
    ELSE 0

tier_ge(a, b) == TIER_RANK(a) >= TIER_RANK(b)

\* ---------------------------------------------------------------- helpers
Max(a, b) == IF a >= b THEN a ELSE b
Min(a, b) == IF a <= b THEN a ELSE b

RECURSIVE SumBets(_, _)
SumBets(q, u) ==
    IF q = <<>> THEN 0
    ELSE (IF Head(q).user_key = u THEN Head(q).bet ELSE 0) + SumBets(Tail(q), u)

\* int(a) of an argument string; the strings the model feeds are these
IsIntArg(a) == a \in {"1", "5", "99", "-2"}
ParseInt(a) == CASE a = "1" -> 1 [] a = "5" -> 5 [] a = "99" -> 99 [] a = "-2" -> 0 - 2

\* ---------------------------------------------------------- slots tables
DEFAULT_RESULTCODE_MULT ==
    [SLOTS_777 |-> 25, SLOTS_TRIPLE_BAR |-> 15, SLOTS_TRIPLE_CHERRY |-> 8, SLOTS_DOUBLE_7 |-> 3,
     SLOTS_DOUBLE_CHERRY |-> 2, SLOTS_SINGLE_CHERRY |-> 1, SLOTS_LOSS |-> 0]

DEFAULT_RESULTCODE_SYMBOLS ==
    [SLOTS_777 |-> <<"7", "7", "7">>, SLOTS_TRIPLE_BAR |-> <<"BAR", "BAR", "BAR">>,
     SLOTS_TRIPLE_CHERRY |-> <<"cherry", "cherry", "cherry">>, SLOTS_DOUBLE_7 |-> <<"7", "7", "*">>,
     SLOTS_DOUBLE_CHERRY |-> <<"cherry", "cherry", "*">>, SLOTS_SINGLE_CHERRY |-> <<"cherry", "*", "*">>,
     SLOTS_LOSS |-> <<"?", "?", "?">>]

DEFAULT_SLOTS_CONFIG ==
    [payouts |-> <<
        [name |-> "777", pattern |-> <<"7", "7", "7">>, mult |-> 25, result_code |-> "SLOTS_777"],
        [name |-> "TRIPLE_BAR", pattern |-> <<"BAR", "BAR", "BAR">>, mult |-> 15, result_code |-> "SLOTS_TRIPLE_BAR"],
        [name |-> "TRIPLE_CHERRY", pattern |-> <<"cherry", "cherry", "cherry">>, mult |-> 8, result_code |-> "SLOTS_TRIPLE_CHERRY"],
        [name |-> "DOUBLE_7", pattern |-> <<"7", "7", "*">>, mult |-> 3, result_code |-> "SLOTS_DOUBLE_7"],
        [name |-> "DOUBLE_CHERRY", pattern |-> <<"cherry", "cherry", "*">>, mult |-> 2, result_code |-> "SLOTS_DOUBLE_CHERRY"],
        [name |-> "SINGLE_CHERRY", pattern |-> <<"cherry", "*", "*">>, mult |-> 1, result_code |-> "SLOTS_SINGLE_CHERRY"]>>,
     default_loss_mult |-> 0]

_slots_pattern_match(pattern, symbols) ==
    /\ Len(pattern) = Len(symbols)
    /\ \A i \in 1..Len(pattern) :
          pattern[i] \in {"*", "ANY", "any", ""} \/ pattern[i] = symbols[i]

\* the multiplier eval_slots returns (first component of its tuple)
eval_slots(symbols, result_code, cfg) ==
    IF Len(symbols) # 3 /\ result_code # ""
    THEN IF result_code \in DOMAIN DEFAULT_RESULTCODE_MULT
         THEN DEFAULT_RESULTCODE_MULT[result_code] ELSE 0
    ELSE LET syms == [i \in 1..3 |-> IF i <= Len(symbols) THEN symbols[i] ELSE "?"]
             hits == {i \in 1..Len(cfg.payouts) : _slots_pattern_match(cfg.payouts[i].pattern, syms)}
         IN  IF hits # {}
             THEN cfg.payouts[CHOOSE i \in hits : \A j \in hits : i <= j].mult
             ELSE IF result_code \in DOMAIN DEFAULT_RESULTCODE_MULT
                  THEN DEFAULT_RESULTCODE_MULT[result_code]
                  ELSE cfg.default_loss_mult


\* ------------------------------------------------------------------ state
VARIABLES
    now,                   \* time.time(), whole seconds
    ticks,                 \* how many times the clock has advanced
    n_events,              \* how many events the router has read from events.inbox
    user_state,            \* RouterBank.user_state: user_key -> record
    gq,                    \* GambleQueue.data: queue, active (<<>> is None), busy_until_ts
    inflight,              \* RouterBank.inflight: task_id -> entry
    ledger,                \* state/points_ledger.jsonl
    replies_out,           \* bus/replies.outbox.jsonl
    overlay_out,           \* bus/overlay.outbox.jsonl
    inbox,                 \* bus/<bot>.inbox.jsonl, one sequence of tasks per bot
    outbox,                \* bus/<bot>.outbox.jsonl, one sequence of replies per bot
    deadletter,            \* bus/deadletter.<bot>.jsonl
    worker_off,            \* each worker's inbox cursor, in records
    standby_off,           \* the inbox cursor the standby music worker loaded when it started
    router_off,            \* offsets["bot_offsets"][bot]["outbox_offset_bytes"], in records
    recent_cmd_exact,      \* RouterBank._recent_cmd_exact
    recent_cmd_loose,      \* RouterBank._recent_cmd_loose
    last_active_award_ts,  \* RouterBank._last_active_award_ts
    next_id,               \* the uuid4 source: every task id is fresh
    start_points,          \* history: the points each user had when the router started
    terminated             \* history: task ids whose terminating reply the router processed

routerVars == <<now, ticks, n_events, user_state, gq, inflight, ledger, replies_out, overlay_out,
                inbox, outbox, deadletter, worker_off, standby_off, router_off,
                recent_cmd_exact, recent_cmd_loose, last_active_award_ts, next_id, start_points,
                terminated>>

\* ---- the bus cursors: files, readers, persisted and in-memory offsets
VARIABLES
    bus_file,              \* each bus file: its records, each with an id and a length in bytes
    persisted,             \* each reader's offsets file: <<>> when absent, else <<byte offset>>
    mem_off,               \* each reader's in-memory offset
    up,                    \* which readers are running
    batch,                 \* the records a reader has read and not yet handled
    processed,             \* history: ids of the records whose effects each reader produced
    dirty_offsets,         \* the router's _dirty_offsets
    rec_id,                \* the next fresh record id
    n_appended,            \* events the ingestor has appended
    n_crashes,             \* crashes so far
    n_clears               \* runs of the clear-data tool so far

busVars == <<bus_file, persisted, mem_off, up, batch, processed, dirty_offsets, rec_id,
             n_appended, n_crashes, n_clears>>

\* ---- the music worker's active/standby lock
VARIABLES
    lock,                  \* leader.lock: <<>> when absent, else <<pid of its creator>>
    hb,                    \* leader_heartbeat.json: <<>> when absent, else <<age in seconds>>
    alive,                 \* which worker processes run
    pc,                    \* where each worker process stands in its loop
    is_leader,             \* each process's is_leader
    since_hb,              \* seconds since each process's last_hb, saturating
    served                 \* history: processes that have read the inbox as leader

leaderVars == <<lock, hb, alive, pc, is_leader, since_hb, served>>

\* ---- the ingestor: the unified feed document and its cursor; a user key being scoped
VARIABLES
    feed,             \* the messages of the unified-feed document, in file order
    offsets,          \* feed_last_ts, feed_recent_fps
    emitted,          \* ids of the messages returned by the polls so far
    n_polls,
    uk_platform,      \* stable_user_key: its platform argument
    uk_user,          \* its user argument
    uk_once,          \* its result, once computed
    uk_twice          \* the result of scoping uk_once again, once computed

ingestVars == <<feed, offsets, emitted, n_polls, uk_platform, uk_user, uk_once, uk_twice>>

coreVars == <<routerVars, busVars, leaderVars, ingestVars>>

\* ---- the bot workers' main loops: inbox, cursor, outbox and ack file of each worker
VARIABLES
    wk_inbox,         \* bot.<id>.inbox.jsonl: the task records the router appended
    wk_off,           \* records of the inbox behind the worker's persisted offset
    wk_batch,         \* the gamble worker's list `tasks`, not yet iterated
    wk_outbox,        \* bot.<id>.outbox.jsonl
    wk_ack            \* bot.<id>.ack.jsonl

workVars == <<wk_inbox, wk_off, wk_batch, wk_outbox, wk_ack>>

\* ---- the gamble worker's single-instance lock
VARIABLES
    gl_lock,          \* worker.lock: <<>> when absent, else <<pid it names>>
    gl_pc,            \* where each gamble worker process is in main()
    gl_pid            \* the pid each process read from the lock, 0 when none

glockVars == <<gl_lock, gl_pc, gl_pid>>

\* ---- the supervisor: the processes it built and its restart bookkeeping
VARIABLES
    sv_cfg,           \* the bots list of the configuration
    sv_args,          \* the command-line switches
    sv_procs,         \* names of the worker processes build() registered, once built
    sv_now,           \* time.time(), in seconds
    sv_up,            \* per process: is it running
    sv_restarts,      \* ProcState.restarts of each process
    sv_log            \* history: the times at which each process was restarted

supVars == <<sv_cfg, sv_args, sv_procs, sv_now, sv_up, sv_restarts, sv_log>>

\* ---- the emitter: reply intents, its cursor, the two delivery routes
VARIABLES
    em_cfg,           \* ssn_enabled, overlay_enabled, chat_file configured
    em_intents,       \* replies_out.jsonl
    em_off,           \* records behind the emitter's offset
    em_batch,         \* the emitter's list `rrec`, not yet iterated
    em_sent,          \* history: intents the relay accepted
    em_overlay        \* the overlay chat append-file

emitVars == <<em_cfg, em_intents, em_off, em_batch, em_sent, em_overlay>>

\* ---- a bus file at byte level, and the readers that tail it
VARIABLES
    tl_file,          \* the bytes of the file
    tl_rest,          \* bytes of the current record the writer has not written yet
    tl_n,             \* records the writer has started
    tl_off,           \* per reader: byte offset
    tl_got            \* per reader: the records its polls returned

tailVars == <<tl_file, tl_rest, tl_n, tl_off, tl_got>>

\* ---- a worker's start-up: the inbox it finds, its offsets.json, its own cursor
VARIABLES
    bt_inbox,         \* bot.<id>.inbox.jsonl: how many task records it holds
    bt_offsets,       \* the worker's offsets.json: <<>> when absent, else <<inbox_offset_bytes>>
    bt_state,         \* per process: down, standby, leader (running its poll loop), dead
    bt_off,           \* per process: its variable inbox_offset / inbox_off
    bt_seeded,        \* history: <<inbox length>> at a start that found no offsets.json
    bt_handled        \* history: the inbox records each process handled, in order

bootVars == <<bt_inbox, bt_offsets, bt_state, bt_off, bt_seeded, bt_handled>>

\* ---- the router's state files, as a restart finds them
VARIABLES
    dk_user_state,    \* state/user_state.json
    dk_router_off,    \* state/offsets.json: the outbox offsets
    dk_inflight,      \* state/inflight.json
    dk_n_events,      \* state/offsets.json: events_in_offset_bytes, in records
    dk_crashes        \* how often the router was killed

diskVars == <<dk_user_state, dk_router_off, dk_inflight, dk_n_events, dk_crashes>>

\* ---- the supervisor's staleness check: the witness files' modification times
VARIABLES
    sl_mtime          \* st_mtime of each witness file, 0 when the file is missing

staleVars == <<sl_mtime>>

auxVars == <<workVars, glockVars, supVars, emitVars, tailVars, bootVars, diskVars, staleVars>>

NoId == <<"none", 0>>

\* the RouterBank object and the files it writes, as one record
World ==
    [user_state |-> user_state, gq |-> gq, inflight |-> inflight, ledger |-> ledger,
     replies_out |-> replies_out, overlay_out |-> overlay_out, inbox |-> inbox,
     deadletter |-> deadletter, recent_cmd_exact |-> recent_cmd_exact,
     recent_cmd_loose |-> recent_cmd_loose, last_active_award_ts |-> last_active_award_ts,
     next_id |-> next_id, terminated |-> terminated]

Install(S) ==
    /\ user_state' = S.user_state
    /\ gq' = S.gq
    /\ inflight' = S.inflight
    /\ ledger' = S.ledger
    /\ replies_out' = S.replies_out
    /\ overlay_out' = S.overlay_out
    /\ inbox' = S.inbox
    /\ deadletter' = S.deadletter
    /\ recent_cmd_exact' = S.recent_cmd_exact
    /\ recent_cmd_loose' = S.recent_cmd_loose
    /\ last_active_award_ts' = S.last_active_award_ts
    /\ next_id' = S.next_id
    /\ terminated' = S.terminated

\* ------------------------------------------------------ GambleQueue class
\* a faulty variant: wagers already held are not counted
reserved_points_for_user_none(data, user_key) == 0

reserved_points_for_user(data, user_key) ==
    SumBets(data.queue, user_key)
    + (IF data.active # <<>> /\ data.active[1].user_key = user_key THEN data.active[1].bet ELSE 0)

enqueue(data, task) == [data EXCEPT !.queue = Append(@, task)]

active_task_id(data) == IF data.active # <<>> THEN data.active[1].task_id ELSE NoId

can_dispatch_ignoring_active(data, now_ts) ==
    IF now_ts < data.busy_until_ts THEN FALSE ELSE Len(data.queue) > 0

can_dispatch_ignoring_busy(data, now_ts) ==
    IF data.active # <<>> THEN FALSE ELSE Len(data.queue) > 0

can_dispatch(data, now_ts) ==
    IF data.active # <<>> THEN FALSE
    ELSE IF now_ts < data.busy_until_ts THEN FALSE
    ELSE Len(data.queue) > 0

pop_last_for_dispatch(data) ==
    IF data.queue = <<>> THEN data
    ELSE [data EXCEPT !.queue = SubSeq(@, 1, Len(@) - 1), !.active = <<data.queue[Len(data.queue)]>>]

pop_next_for_dispatch(data) ==
    IF data.queue = <<>> THEN data
    ELSE [data EXCEPT !.queue = Tail(@), !.active = <<Head(data.queue)>>]

\* a faulty variant: the active slot is not cleared
mark_done_keeps_active(data, blocking_ms, t) ==
    [data EXCEPT !.busy_until_ts = IF blocking_ms > 0 THEN t + (Max(0, blocking_ms) \div 1000) ELSE t]

mark_done(data, blocking_ms, t) ==
    [data EXCEPT !.active = <<>>,
                 !.busy_until_ts = IF blocking_ms > 0 THEN t + (Max(0, blocking_ms) \div 1000) ELSE t]

\* ------------------------------------------------------- RouterBank state
NewRec(t) ==
    [points |-> 0, last_seen_ts |-> 0, last_award_ts |-> t, cooldowns |-> [c \in CmdNames |-> 0]]

_get_user_rec(S, user_key, t) ==
    IF user_key \in DOMAIN S.user_state THEN S
    ELSE [S EXCEPT !.user_state = (user_key :> NewRec(t)) @@ @]

get_points(S, user_key) ==
    IF user_key \in DOMAIN S.user_state THEN S.user_state[user_key].points ELSE 0

set_points(S, user_key, pts, t) ==
    [_get_user_rec(S, user_key, t) EXCEPT !.user_state[user_key].points = Max(0, pts)]

add_points(S, user_key, delta, t) == set_points(S, user_key, get_points(S, user_key) + delta, t)

\* a faulty variant: the bypass tier is not looked at
_cooldown_ok_no_bypass(S, user_key, cmd_name, cooldown_seconds, bypass_tier, user_tier, t) ==
    IF cooldown_seconds <= 0 THEN TRUE
    ELSE (t - _get_user_rec(S, user_key, t).user_state[user_key].cooldowns[cmd_name]) >= cooldown_seconds

_cooldown_ok(S, user_key, cmd_name, cooldown_seconds, bypass_tier, user_tier, t) ==
    IF cooldown_seconds <= 0 THEN TRUE
    ELSE IF bypass_tier # "" /\ tier_ge(user_tier, bypass_tier) THEN TRUE
    ELSE (t - _get_user_rec(S, user_key, t).user_state[user_key].cooldowns[cmd_name]) >= cooldown_seconds

_cooldown_remaining(S, user_key, cmd_name, cooldown_seconds, t) ==
    IF cooldown_seconds <= 0 THEN 0
    ELSE Max(0, cooldown_seconds
                - (t - _get_user_rec(S, user_key, t).user_state[user_key].cooldowns[cmd_name]))

\* a faulty variant: an executed command leaves its timestamp as it was
_set_cooldown_keeps(S, user_key, cmd_name, t) == _get_user_rec(S, user_key, t)

_set_cooldown(S, user_key, cmd_name, t) ==
    [_get_user_rec(S, user_key, t) EXCEPT !.user_state[user_key].cooldowns[cmd_name] = t]

emit_reply(S, reply_name, text, bot_id) ==
    [S EXCEPT !.replies_out = Append(@, [reply_name |-> reply_name, text |-> text, bot |-> bot_id])]

emit_overlay(S, event_id) == [S EXCEPT !.overlay_out = Append(@, event_id)]

record_ledger(S, user_key, cmd_name, bot_id, delta, before, after, note, t) ==
    [S EXCEPT !.ledger = Append(@, [ts |-> t, user_key |-> user_key, command |-> cmd_name,
                                    bot |-> bot_id, delta |-> delta, before |-> before,
                                    after |-> after, note |-> note])]

_parse_bet(args, spendable) ==
    IF args = "" THEN (IF spendable > 0 THEN Min(DEFAULT_BET, spendable) ELSE 0)
    ELSE IF args \in {"max", "all"} THEN spendable
    ELSE IF IsIntArg(args) THEN Max(0, ParseInt(args))
    ELSE 0

\* ------------------------------------------------------ command handlers
handle_manager_command(S, cdef, reply_name, user_key, user_tier, t) ==
    IF ~tier_ge(user_tier, cdef.min_tier) THEN S
    ELSE IF ~_cooldown_ok(S, user_key, cdef.command, cdef.cooldown_seconds,
                          cdef.cooldown_bypass_tier, user_tier, t)
    THEN IF _cooldown_remaining(S, user_key, cdef.command, cdef.cooldown_seconds, t) > 0
         THEN emit_reply(emit_reply(S, reply_name, "cooldown", "manager"),
                         reply_name, "receipt_not_charged_cooldown", "manager")
         ELSE S
    ELSE LET S1 == _set_cooldown(S, user_key, cdef.command, t)
         IN  IF cdef.command = "points"
             THEN emit_reply(S1, reply_name, "points_and_receipt", "manager")
             ELSE S1

\* a faulty variant: the wager is taken from the balance when it is queued
enqueue_gamble_debits(S, cmd_def, reply_name, user_key, args, t) ==
    LET points == get_points(S, user_key)
        reserved == reserved_points_for_user(S.gq, user_key)
        spendable == Max(0, points - reserved)
        bet == _parse_bet(args, spendable)
        task == [task_id |-> <<"g", S.next_id>>, action |-> cmd_def.action, bet |-> bet,
                 reply_name |-> reply_name, user_key |-> user_key,
                 available_points |-> spendable, command |-> cmd_def.command]
    IN  IF bet <= 0
        THEN emit_reply(emit_reply(S, reply_name, "available_to_wager", "gamble"),
                        reply_name, "receipt_cost_0", "gamble")
        ELSE IF bet > spendable
        THEN emit_reply(emit_reply(S, reply_name, "max_wager", "gamble"),
                        reply_name, "receipt_cost_0", "gamble")
        ELSE LET S1 == [S EXCEPT !.gq = enqueue(@, task), !.next_id = @ + 1,
                                 !.user_state[user_key].points = points - bet]
                 S2 == emit_reply(S1, reply_name, "queued", "gamble")
                 S3 == emit_reply(S2, reply_name, "receipt_reserved_wager", "gamble")
             IN  record_ledger(S3, user_key, cmd_def.command, "gamble", 0 - bet, points,
                               points - bet, "wager_reserved", t)

enqueue_gamble(S, cmd_def, reply_name, user_key, args, t) ==
    LET points == get_points(S, user_key)
        reserved == reserved_points_for_user(S.gq, user_key)
        spendable == Max(0, points - reserved)
        bet == _parse_bet(args, spendable)
        task == [task_id |-> <<"g", S.next_id>>, action |-> cmd_def.action, bet |-> bet,
                 reply_name |-> reply_name, user_key |-> user_key,
                 available_points |-> spendable, command |-> cmd_def.command]
    IN  IF bet <= 0
        THEN emit_reply(emit_reply(S, reply_name, "available_to_wager", "gamble"),
                        reply_name, "receipt_cost_0", "gamble")
        ELSE IF bet > spendable
        THEN emit_reply(emit_reply(S, reply_name, "max_wager", "gamble"),
                        reply_name, "receipt_cost_0", "gamble")
        ELSE LET S1 == [S EXCEPT !.gq = enqueue(@, task), !.next_id = @ + 1]
                 S2 == emit_reply(S1, reply_name, "queued", "gamble")
                 S3 == emit_reply(S2, reply_name, "receipt_reserved_wager", "gamble")
             IN  record_ledger(S3, user_key, cmd_def.command, "gamble", 0, points, points,
                               "wager_reserved", t)

dispatch_to_worker(S, bot_id, cmd_def, reply_name, user_key, user_tier, args, t) ==
    LET task_id == <<"t", S.next_id>>
        task == [type |-> "task", task_id |-> task_id, bot |-> bot_id, action |-> cmd_def.action,
                 command |-> cmd_def.command, args |-> args, reply_name |-> reply_name,
                 user_key |-> user_key, user_tier |-> user_tier]
    IN  [S EXCEPT !.inbox[bot_id] = Append(@, task),
                  !.inflight = (task_id :> [bot |-> bot_id, reply_name |-> reply_name,
                                            user_key |-> user_key, created_ts |-> t]) @@ @,
                  !.next_id = @ + 1]

\* a faulty variant: the funds test is skipped
can_afford_always(cost, pts_before) == TRUE

\* line 813: not (cost > 0 and pts_before < cost)
can_afford(cost, pts_before) == ~(cost > 0 /\ pts_before < cost)

handle_bot_command(S, cdef, reply_name, user_key, user_tier, args, t) ==
    LET bot_id == IF cdef.bot = "" THEN "manager" ELSE cdef.bot IN
    IF ~tier_ge(user_tier, cdef.min_tier) THEN S
    ELSE IF ~_cooldown_ok(S, user_key, cdef.command, cdef.cooldown_seconds,
                          cdef.cooldown_bypass_tier, user_tier, t)
    THEN IF _cooldown_remaining(S, user_key, cdef.command, cdef.cooldown_seconds, t) > 0
         THEN emit_reply(emit_reply(S, reply_name, "cooldown", bot_id),
                         reply_name, "receipt_not_charged_cooldown", bot_id)
         ELSE S
    ELSE LET S1 == _set_cooldown(S, user_key, cdef.command, t)
             cost == cdef.cost_points
             pts_before == get_points(S1, user_key)
         IN  IF bot_id = "gamble" THEN enqueue_gamble(S1, cdef, reply_name, user_key, args, t)
             ELSE IF ~can_afford(cost, pts_before)
             THEN emit_reply(S1, reply_name, "insufficient_funds", bot_id)
             ELSE LET pts_after == IF cost > 0 THEN Max(0, pts_before - cost) ELSE pts_before
                      S2 == IF cost > 0
                            THEN record_ledger(set_points(S1, user_key, pts_after, t), user_key,
                                               cdef.command, bot_id, 0 - cost, pts_before, pts_after,
                                               "command_cost", t)
                            ELSE S1
                      S3 == emit_reply(S2, reply_name, "receipt", bot_id)
                  IN  IF bot_id \in bots
                      THEN dispatch_to_worker(S3, bot_id, cdef, reply_name, user_key, user_tier, args, t)
                      ELSE S3

\* ---------------------------------------------------------- worker replies
RECURSIVE emit_messages(_, _, _, _)
emit_messages(S, reply_name, msgs, bot_id) ==
    IF msgs = <<>> THEN S
    ELSE emit_messages(emit_reply(S, reply_name, Head(msgs), bot_id), reply_name, Tail(msgs), bot_id)

RECURSIVE emit_overlays(_, _, _)
emit_overlays(S, evs, event_id) ==
    IF evs = <<>> THEN S ELSE emit_overlays(emit_overlay(S, event_id), Tail(evs), event_id)

\* lines 926-929: pts_after = max(0, pts_before + net); set_points(user_key, pts_after)
apply_gamble_net_unclamped(S, user_key, pts_before, net, t) ==
    [_get_user_rec(S, user_key, t) EXCEPT !.user_state[user_key].points = pts_before + net]

apply_gamble_net(S, user_key, pts_before, net, t) ==
    set_points(S, user_key, Max(0, pts_before + net), t)

handle_gamble_reply(S, rec, t) ==
    LET active_id == active_task_id(S.gq) IN
    IF active_id = NoId \/ rec.task_id # active_id THEN S
    ELSE LET active == S.gq.active[1]
             user_key == active.user_key
             game == rec.game
             bet == IF game.has_bet THEN game.bet ELSE active.bet
             mult == IF game.has_mult THEN game.mult
                     ELSE eval_slots(game.symbols, game.result_code, DEFAULT_SLOTS_CONFIG)
             payout_raw == IF game.has_payout THEN game.payout ELSE bet * mult
             payout == IF payout_raw < 0 THEN 0 ELSE payout_raw
             pts_before == get_points(S, user_key)
             net == payout - bet
             S1 == apply_gamble_net(S, user_key, pts_before, net, t)
             pts_after == get_points(S1, user_key)
             S2 == emit_reply(S1, active.reply_name,
                              IF mult > 0 /\ payout > 0 THEN "slots_win" ELSE "slots_lose", "gamble")
             S3 == record_ledger(S2, user_key, active.command, "gamble", net, pts_before, pts_after,
                                  "slots", t)
             S4 == emit_overlays(S3, rec.overlay_events, <<"evt", active_id>>)
         IN  [S4 EXCEPT !.gq = mark_done(@, rec.blocking_ms, t),
                        !.terminated = Append(@, active_id)]

\* a faulty variant: the inflight entry is not dropped after the reply
handle_worker_reply_keeps_inflight(S, bot_id, rec, t) ==
    IF rec.type # "reply" THEN S
    ELSE IF bot_id = "gamble" THEN handle_gamble_reply(S, rec, t)
    ELSE IF rec.task_id \notin DOMAIN S.inflight
    THEN [S EXCEPT !.deadletter[bot_id] = Append(@, [type |-> "orphan_reply", record |-> rec])]
    ELSE [emit_messages(S, S.inflight[rec.task_id].reply_name,
                        SubSeq(rec.messages, 1, Min(3, Len(rec.messages))), bot_id)
             EXCEPT !.terminated = Append(@, rec.task_id)]

handle_worker_reply(S, bot_id, rec, t) ==
    IF rec.type # "reply" THEN S
    ELSE IF bot_id = "gamble" THEN handle_gamble_reply(S, rec, t)
    ELSE IF rec.task_id \notin DOMAIN S.inflight
    THEN [S EXCEPT !.deadletter[bot_id] = Append(@, [type |-> "orphan_reply", record |-> rec])]
    ELSE LET meta == S.inflight[rec.task_id]
             S1 == emit_messages(S, meta.reply_name, SubSeq(rec.messages, 1, Min(3, Len(rec.messages))),
                                 bot_id)
         IN  [S1 EXCEPT !.inflight = [k \in (DOMAIN @) \ {rec.task_id} |-> @[k]],
                        !.terminated = Append(@, rec.task_id)]

\* ------------------------------------------------------ gamble dispatch
maybe_dispatch_gamble(S, t) ==
    IF "gamble" \notin bots THEN S
    ELSE IF ~can_dispatch(S.gq, t) THEN S
    ELSE LET data == pop_next_for_dispatch(S.gq)
         IN  IF data.active = <<>> THEN S
             ELSE [S EXCEPT !.gq = data, !.inbox["gamble"] = Append(@, data.active[1])]

\* ------------------------------------------------------ events and points
award_rec(rec, t) ==
    LET elapsed == t - rec.last_award_ts
        minutes == elapsed \div 60
        add == minutes * points_per_minute_active
    IN  IF t - rec.last_seen_ts > active_window_seconds THEN rec
        ELSE IF elapsed < 60 THEN rec
        ELSE IF add > 0
        THEN [rec EXCEPT !.points = Max(0, rec.points + add),
                         !.last_award_ts = rec.last_award_ts + minutes * 60]
        ELSE rec

award_active_points_tick(S, t) ==
    IF t - S.last_active_award_ts < AWARD_SCAN_SEC THEN S
    ELSE [S EXCEPT !.last_active_award_ts = t,
                   !.user_state = [u \in DOMAIN @ |-> award_rec(@[u], t)]]

\* a faulty variant: the comparison is turned around, recent entries are dropped
Purge_recent(window, cut) == {e \in window : e.t0 < cut}

Purge(window, cut) == {e \in window : ~(e.t0 < cut)}

\* a faulty variant: a command in neither index is answered
route_command_answers_unknown(S, ev, t) ==
    IF ev.cmd \in DOMAIN manager_commands
    THEN handle_manager_command(S, manager_commands[ev.cmd], ev.reply_name, ev.user_key,
                                ev.tier, t)
    ELSE IF ev.cmd \in DOMAIN commands
    THEN handle_bot_command(S, commands[ev.cmd], ev.reply_name, ev.user_key, ev.tier, ev.args, t)
    ELSE emit_reply(S, ev.reply_name, "unknown_command", "manager")

\* lines 1055-1064: manager command, else bot command, else nothing
route_command(S, ev, t) ==
    IF ev.cmd \in DOMAIN manager_commands
    THEN handle_manager_command(S, manager_commands[ev.cmd], ev.reply_name, ev.user_key,
                                ev.tier, t)
    ELSE IF ev.cmd \in DOMAIN commands
    THEN handle_bot_command(S, commands[ev.cmd], ev.reply_name, ev.user_key, ev.tier, ev.args, t)
    ELSE S

process_event(S, ev, t) ==
    LET S0 == _get_user_rec(S, ev.user_key, t)
        S1 == [S0 EXCEPT !.user_state[ev.user_key].last_seen_ts = t]
    IN  IF ev.type = "chat"
        THEN LET S2 == add_points(S1, ev.user_key, points_per_message, t)
                 k_loose == <<ev.user_key, ev.reply_name, ev.cmd, ev.args>>
                 k_exact == <<ev.user_key, ev.reply_name, ev.cmd, ev.args, ev.ts>>
                 S3 == [S2 EXCEPT !.recent_cmd_exact = Purge(@, t - recent_cmd_window_exact_sec),
                                  !.recent_cmd_loose = Purge(@, t - recent_cmd_window_loose_sec)]
                 S4 == [S3 EXCEPT !.recent_cmd_exact = @ \cup {[k |-> k_exact, t0 |-> t]},
                                  !.recent_cmd_loose = @ \cup {[k |-> k_loose, t0 |-> t]}]
             IN  IF ev.cmd = "" THEN S2
                 ELSE IF \E e \in S3.recent_cmd_exact : e.k = k_exact THEN S3
                 ELSE IF \E e \in S3.recent_cmd_loose : e.k = k_loose THEN S3
                 ELSE route_command(S4, ev, t)
        ELSE IF ev.type = "like" THEN add_points(S1, ev.user_key, points_per_like, t)
        ELSE IF ev.type = "share" THEN add_points(S1, ev.user_key, points_per_share, t)
        ELSE S1

\* ------------------------------------------------------- gamble worker
RULES ==
    [SLOTS_777 |-> [mult |-> 25, spin_ms |-> 3200],
     SLOTS_TRIPLE_BAR |-> [mult |-> 15, spin_ms |-> 2600],
     SLOTS_TRIPLE_CHERRY |-> [mult |-> 8, spin_ms |-> 2400],
     SLOTS_DOUBLE_7 |-> [mult |-> 3, spin_ms |-> 2200],
     SLOTS_DOUBLE_CHERRY |-> [mult |-> 2, spin_ms |-> 2100],
     SLOTS_SINGLE_CHERRY |-> [mult |-> 1, spin_ms |-> 1900],
     SLOTS_LOSS |-> [mult |-> 0, spin_ms |-> 1700]]

CountOf(reels, x) == Cardinality({i \in 1..Len(reels) : reels[i] = x})

\* the worker's emoji: keycap_7 and red_square are not the router's "7" and "BAR"
_classify(reels) ==
    IF reels = <<"keycap_7", "keycap_7", "keycap_7">> THEN "SLOTS_777"
    ELSE IF reels = <<"red_square", "red_square", "red_square">> THEN "SLOTS_TRIPLE_BAR"
    ELSE IF reels = <<"cherry", "cherry", "cherry">> THEN "SLOTS_TRIPLE_CHERRY"
    ELSE IF CountOf(reels, "keycap_7") = 2 THEN "SLOTS_DOUBLE_7"
    ELSE IF CountOf(reels, "cherry") = 2 THEN "SLOTS_DOUBLE_CHERRY"
    ELSE IF CountOf(reels, "cherry") = 1 THEN "SLOTS_SINGLE_CHERRY"
    ELSE "SLOTS_LOSS"

play_slots(bet, reels) ==
    LET code == _classify(reels)
    IN  [result_code |-> code, payout |-> bet * RULES[code].mult, reels |-> reels,
         spin_ms |-> RULES[code].spin_ms]

Game(bet, result_code, payout, symbols) ==
    [has_bet |-> TRUE, bet |-> bet, result_code |-> result_code, has_payout |-> TRUE,
     payout |-> payout, symbols |-> symbols, has_mult |-> FALSE, mult |-> 0]

\* the reels are the rng's draw
run_game_task(task, reels) ==
    LET bet0 == task.bet
        available == task.available_points
        bet == IF available > 0 /\ bet0 > available THEN available ELSE bet0
        result == play_slots(bet, reels)
    IN  IF bet0 <= 0
        THEN [game |-> Game(bet0, "INVALID_BET", 0, <<>>), messages |-> <<"invalid_bet">>,
              overlay_events |-> <<>>, blocking_ms |-> 0]
        ELSE IF task.action = "slots"
        THEN [game |-> Game(bet, result.result_code, result.payout, result.reels),
              messages |-> <<"spun">>, overlay_events |-> <<"slots_spin">>,
              blocking_ms |-> result.spin_ms]
        ELSE [game |-> Game(bet, "UNKNOWN_GAME", 0, <<>>), messages |-> <<"unknown_game">>,
              overlay_events |-> <<>>, blocking_ms |-> 0]

GambleReply(task, reels) ==
    LET p == run_game_task(task, reels)
    IN  [type |-> "reply", task_id |-> task.task_id, game |-> p.game, messages |-> p.messages,
         overlay_events |-> p.overlay_events, blocking_ms |-> p.blocking_ms]

\* the music worker's send_reply for one task
SpotifyReply(task) == [type |-> "reply", task_id |-> task.task_id, messages |-> <<"done">>]

\* ------------------------------------------------- router: inputs, actions
Reels == {<<"keycap_7", "keycap_7", "keycap_7">>, <<"lemon", "grape", "diamond">>}

EvT(type, u, tier, cmd, args, ts) ==
    [type |-> type, user_key |-> u, reply_name |-> u, tier |-> tier, cmd |-> cmd,
     args |-> args, ts |-> ts]

Ev(type, u, cmd, args, ts) ==
    [type |-> type, user_key |-> u, reply_name |-> u, tier |-> "EVERYONE", cmd |-> cmd,
     args |-> args, ts |-> ts]

EventInputs(t) ==
    {Ev("like", "yt:bob", "", "", t),
     Ev("chat", "yt:ann", "slots", "max", t), Ev("chat", "yt:bob", "slots", "1", t),
     Ev("chat", "yt:ann", "sr", "song", t)}

BotOrder == <<"gamble", "spotify", "tts">>

RECURSIVE handle_all(_, _, _, _)
handle_all(S, bot_id, recs, t) ==
    IF recs = <<>> THEN S
    ELSE handle_all(handle_worker_reply(S, bot_id, Head(recs), t), bot_id, Tail(recs), t)

RECURSIVE poll_bot_outboxes(_, _, _)
poll_bot_outboxes(S, order, t) ==
    IF order = <<>> THEN S
    ELSE LET b == Head(order)
             recs == SubSeq(outbox[b], router_off[b] + 1, Len(outbox[b]))
         IN  poll_bot_outboxes(handle_all(S, b, recs, t), Tail(order), t)

InitRouter ==
    /\ now = StartTime
    /\ ticks = 0
    /\ n_events = 0
    /\ \E p \in InitPoints :
          /\ user_state = [u \in {"yt:ann", "yt:cat"} |->
                               [NewRec(StartTime) EXCEPT !.points = p, !.last_seen_ts = StartTime]]
          /\ start_points = [u \in Users |-> IF u \in {"yt:ann", "yt:cat"} THEN p ELSE 0]
    /\ gq = [queue |-> <<>>, active |-> <<>>, busy_until_ts |-> 0]
    /\ inflight = <<>>
    /\ ledger = <<>>
    /\ replies_out = <<>>
    /\ overlay_out = <<>>
    /\ inbox = [b \in bots |-> <<>>]
    /\ outbox = [b \in bots |-> <<>>]
    /\ deadletter = [b \in bots |-> <<>>]
    /\ worker_off = [b \in bots |-> 0]
    /\ standby_off = <<0>>
    /\ router_off = [b \in bots |-> 0]
    /\ recent_cmd_exact = {}
    /\ recent_cmd_loose = {}
    /\ last_active_award_ts = StartTime
    /\ next_id = 1
    /\ terminated = <<>>

Tick(d) ==
    /\ UNCHANGED <<busVars, leaderVars, ingestVars, auxVars>>
    /\ ticks < MaxTicks
    /\ now' = now + d
    /\ ticks' = ticks + 1
    /\ UNCHANGED <<n_events, user_state, gq, inflight, ledger, replies_out, overlay_out, inbox,
                   outbox, deadletter, worker_off, standby_off, router_off, recent_cmd_exact,
                   recent_cmd_loose, last_active_award_ts, next_id, start_points, terminated>>

AwardTick ==
    /\ UNCHANGED <<busVars, leaderVars, ingestVars, auxVars>>
    /\ Install(award_active_points_tick(World, now))
    /\ UNCHANGED <<now, ticks, n_events, outbox, worker_off, standby_off, router_off, start_points>>

PollEvents(ev) ==
    /\ UNCHANGED <<busVars, leaderVars, ingestVars, auxVars>>
    /\ n_events < MaxEvents
    /\ n_events' = n_events + 1
    /\ Install(process_event(World, ev, now))
    /\ UNCHANGED <<now, ticks, outbox, worker_off, standby_off, router_off, start_points>>

PollBotOutboxes ==
    /\ UNCHANGED <<busVars, leaderVars, ingestVars, auxVars>>
    /\ \E b \in bots : router_off[b] < Len(outbox[b])
    /\ Install(poll_bot_outboxes(World, BotOrder, now))
    /\ router_off' = [b \in bots |-> Len(outbox[b])]
    /\ UNCHANGED <<now, ticks, n_events, outbox, worker_off, standby_off, start_points>>

MaybeDispatchGamble ==
    /\ UNCHANGED <<busVars, leaderVars, ingestVars, auxVars>>
    /\ Install(maybe_dispatch_gamble(World, now))
    /\ UNCHANGED <<now, ticks, n_events, outbox, worker_off, standby_off, router_off, start_points>>

GambleWorker(reels) ==
    /\ UNCHANGED <<busVars, leaderVars, ingestVars, auxVars>>
    /\ worker_off["gamble"] < Len(inbox["gamble"])
    /\ outbox' = [outbox EXCEPT !["gamble"] =
                     Append(@, GambleReply(inbox["gamble"][worker_off["gamble"] + 1], reels))]
    /\ worker_off' = [worker_off EXCEPT !["gamble"] = @ + 1]
    /\ UNCHANGED <<now, ticks, n_events, user_state, gq, inflight, ledger, replies_out,
                   overlay_out, inbox, deadletter, standby_off, router_off, recent_cmd_exact,
                   recent_cmd_loose, last_active_award_ts, next_id, start_points, terminated>>

SpotifyWorker ==
    /\ UNCHANGED <<busVars, leaderVars, ingestVars, auxVars>>
    /\ worker_off["spotify"] < Len(inbox["spotify"])
    /\ outbox' = [outbox EXCEPT !["spotify"] =
                     Append(@, SpotifyReply(inbox["spotify"][worker_off["spotify"] + 1]))]
    /\ worker_off' = [worker_off EXCEPT !["spotify"] = @ + 1]
    /\ UNCHANGED <<now, ticks, n_events, user_state, gq, inflight, ledger, replies_out,
                   overlay_out, inbox, deadletter, standby_off, router_off, recent_cmd_exact,
                   recent_cmd_loose, last_active_award_ts, next_id, start_points, terminated>>

\* The standby music worker read offsets.json once, at its start; when it takes the
\* lock it reads the inbox from that cursor (worker.py 305-320, 346-348, 376).
SpotifyTakeover ==
    /\ UNCHANGED <<busVars, leaderVars, ingestVars, auxVars>>
    /\ standby_off # <<>>
    /\ worker_off' = [worker_off EXCEPT !["spotify"] = standby_off[1]]
    /\ standby_off' = <<>>
    /\ UNCHANGED <<now, ticks, n_events, user_state, gq, inflight, ledger, replies_out,
                   overlay_out, inbox, outbox, deadletter, router_off, recent_cmd_exact,
                   recent_cmd_loose, last_active_award_ts, next_id, start_points, terminated>>

NextRouter ==
    \/ \E d \in TimeSteps : Tick(d)
    \/ AwardTick
    \/ \E ev \in EventInputs(now) : PollEvents(ev)
    \/ PollBotOutboxes
    \/ MaybeDispatchGamble
    \/ \E reels \in Reels : GambleWorker(reels)
    \/ SpotifyWorker
    \/ SpotifyTakeover

\* ------------------------------------------------- gates of the command router
\* The router polled a few seconds or a third of a minute later.
GateSteps == {3, 20}

\* One viewer repeats a feed record (same ts), the broadcaster asks for two songs, a
\* viewer types a command nobody registered, a viewer without points asks for a song,
\* a viewer asks for a second song and for a moderators' command.
GateInputs(t) ==
    {EvT("chat", "yt:ann", "EVERYONE", "sr", "song", StartTime),
     EvT("chat", "yt:cat", "BROADCASTER", "sr", "song", t),
     EvT("chat", "yt:cat", "BROADCASTER", "sr", "tune", t),
     EvT("chat", "yt:ann", "EVERYONE", "nope", "", t),
     EvT("chat", "yt:bob", "EVERYONE", "sr", "song", t),
     EvT("chat", "yt:ann", "EVERYONE", "sr", "tune", t),
     EvT("chat", "yt:ann", "EVERYONE", "skip", "", t)}

StrayId == <<"x", 0>>
StrayBots == {"gamble", "spotify"}

\* a worker outbox record whose task_id the router never issued
StrayRecord(b) ==
    IF b = "gamble"
    THEN GambleReply([task_id |-> StrayId, action |-> "slots", bet |-> 1, available_points |-> 1],
                     <<"lemon", "grape", "diamond">>)
    ELSE SpotifyReply([task_id |-> StrayId])

StrayReply(b) ==
    /\ UNCHANGED <<busVars, leaderVars, ingestVars, auxVars>>
    /\ \A i \in 1..Len(outbox[b]) : outbox[b][i].task_id # StrayId
    /\ outbox' = [outbox EXCEPT ![b] = Append(@, StrayRecord(b))]
    /\ UNCHANGED <<now, ticks, n_events, user_state, gq, inflight, ledger, replies_out,
                   overlay_out, inbox, deadletter, worker_off, standby_off, router_off,
                   recent_cmd_exact, recent_cmd_loose, last_active_award_ts, next_id,
                   start_points, terminated>>

\* ------------------------------------------- replies in another bot's outbox
\* The broadcaster asks for two songs; a reply naming one of the outstanding tasks
\* turns up in the outbox of a bot the task was not dispatched to.
ReplyInputs(t) ==
    {EvT("chat", "yt:cat", "BROADCASTER", "sr", "song", t),
     EvT("chat", "yt:cat", "BROADCASTER", "sr", "tune", t)}

ForeignRecord(b, id) ==
    IF b = "gamble"
    THEN GambleReply([task_id |-> id, action |-> "slots", bet |-> 1, available_points |-> 1],
                     <<"lemon", "grape", "diamond">>)
    ELSE SpotifyReply([task_id |-> id])

ForeignReply(b) ==
    /\ UNCHANGED <<busVars, leaderVars, ingestVars, auxVars>>
    /\ \E id \in DOMAIN inflight :
          /\ inflight[id].bot # b
          /\ \A o \in bots : \A i \in 1..Len(outbox[o]) : outbox[o][i].task_id # id
          /\ outbox' = [outbox EXCEPT ![b] = Append(@, ForeignRecord(b, id))]
    /\ UNCHANGED <<now, ticks, n_events, user_state, gq, inflight, ledger, replies_out,
                   overlay_out, inbox, deadletter, worker_off, standby_off, router_off,
                   recent_cmd_exact, recent_cmd_loose, last_active_award_ts, next_id,
                   start_points, terminated>>

NextReplies ==
    \/ \E d \in GateSteps : Tick(d)
    \/ \E ev \in ReplyInputs(now) : PollEvents(ev)
    \/ \E b \in bots : ForeignReply(b)
    \/ SpotifyWorker
    \/ PollBotOutboxes

NextGate ==
    \/ \E d \in GateSteps : Tick(d)
    \/ \E ev \in GateInputs(now) : PollEvents(ev)
    \/ \E b \in StrayBots : StrayReply(b)
    \/ PollBotOutboxes

\* ---------------------------------------------------- wagers and their completion
\* One viewer wagers 5 points, then everything they have left.
SlotsInputs(t) ==
    {Ev("chat", "yt:ann", "slots", "5", t), Ev("chat", "yt:ann", "slots", "max", t),
     Ev("chat", "yt:ann", "slots", "99", t), Ev("chat", "yt:ann", "slots", "-2", t)}

\* a worker build whose reply carries neither bet nor payout: the router takes the bet
\* from the active task and computes the payout (lines 887, 913-915)
GambleWorkerNoPayout(reels) ==
    /\ UNCHANGED <<busVars, leaderVars, ingestVars, auxVars>>
    /\ worker_off["gamble"] < Len(inbox["gamble"])
    /\ LET rec == GambleReply(inbox["gamble"][worker_off["gamble"] + 1], reels)
       IN  outbox' = [outbox EXCEPT !["gamble"] =
                         Append(@, [rec EXCEPT !.game.has_bet = FALSE, !.game.has_payout = FALSE])]
    /\ worker_off' = [worker_off EXCEPT !["gamble"] = @ + 1]
    /\ UNCHANGED <<now, ticks, n_events, user_state, gq, inflight, ledger, replies_out,
                   overlay_out, inbox, deadletter, standby_off, router_off, recent_cmd_exact,
                   recent_cmd_loose, last_active_award_ts, next_id, start_points, terminated>>

NextSlots ==
    \/ \E d \in GateSteps : Tick(d)
    \/ \E ev \in SlotsInputs(now) : PollEvents(ev)
    \/ MaybeDispatchGamble
    \/ \E reels \in Reels : GambleWorker(reels)
    \/ \E reels \in Reels : GambleWorkerNoPayout(reels)
    \/ PollBotOutboxes

\* ====================================================================== ingestor
\* Strings are sequences of characters; "A" is an upper-case letter, " " white space.
Chars == {"a", "A", ":", " "}
UNKNOWN == <<"u", "n", "k", "n", "o", "w", "n">>
MaxKeyLen == 3
MaxPlatformLen == 2

lower(s) == [i \in 1..Len(s) |-> IF s[i] = "A" THEN "a" ELSE s[i]]

RECURSIVE lstrip(_)
lstrip(s) == IF s # <<>> /\ Head(s) = " " THEN lstrip(Tail(s)) ELSE s

RECURSIVE rstrip(_)
rstrip(s) == IF s # <<>> /\ s[Len(s)] = " " THEN rstrip(SubSeq(s, 1, Len(s) - 1)) ELSE s

strip(s) == rstrip(lstrip(s))

startswith(s, prefix) == Len(s) >= Len(prefix) /\ SubSeq(s, 1, Len(prefix)) = prefix

\* a faulty variant: the key is scoped without looking for the prefix it may carry
stable_user_key_always_prefixes(platform_arg, user) ==
    LET platform == strip(lower(IF platform_arg = <<>> THEN UNKNOWN ELSE platform_arg))
    IN  IF strip(user.key) # <<>> THEN platform \o <<":">> \o strip(user.key)
        ELSE IF strip(user.id) # <<>> THEN platform \o <<":">> \o strip(user.id)
        ELSE IF strip(user.name) # <<>> THEN platform \o <<":">> \o strip(user.name)
        ELSE platform \o <<":">> \o UNKNOWN

\* a field that is absent or blank is the empty string
stable_user_key(platform_arg, user) ==
    LET platform == strip(lower(IF platform_arg = <<>> THEN UNKNOWN ELSE platform_arg))
    IN  IF strip(user.key) # <<>>
        THEN LET raw == strip(user.key)
             IN  IF startswith(lower(raw), platform \o <<":">>) THEN raw
                 ELSE platform \o <<":">> \o raw
        ELSE IF strip(user.id) # <<>> THEN platform \o <<":">> \o strip(user.id)
        ELSE IF strip(user.name) # <<>> THEN platform \o <<":">> \o strip(user.name)
        ELSE platform \o <<":">> \o UNKNOWN

KeyOnly(k) == [key |-> k, id |-> <<>>, name |-> <<>>]

Strings(n) == UNION {[1..k -> Chars] : k \in 0..n}

UserKeyIdle ==
    /\ uk_platform = <<>>
    /\ uk_user = KeyOnly(<<>>)
    /\ uk_once = <<>>
    /\ uk_twice = <<>>

InitUserKey ==
    /\ uk_platform \in Strings(MaxPlatformLen)
    /\ \E k \in Strings(MaxKeyLen), i \in {<<>>, <<"a">>}, n \in {<<>>, <<"A">>} :
          uk_user = [key |-> k, id |-> i, name |-> n]
    /\ uk_once = <<>>
    /\ uk_twice = <<>>

\* the ingestor scopes the key of a record's user
StableUserKey ==
    /\ UNCHANGED <<routerVars, busVars, leaderVars, auxVars>>
    /\ uk_once = <<>>
    /\ uk_once' = <<stable_user_key(uk_platform, uk_user)>>
    /\ UNCHANGED <<feed, offsets, emitted, n_polls, uk_platform, uk_user, uk_twice>>

\* a later stage is handed the scoped key as a raw key of the same platform
StableUserKeyAgain ==
    /\ UNCHANGED <<routerVars, busVars, leaderVars, auxVars>>
    /\ uk_once # <<>>
    /\ uk_twice = <<>>
    /\ uk_twice' = <<stable_user_key(uk_platform, KeyOnly(uk_once[1]))>>
    /\ UNCHANGED <<feed, offsets, emitted, n_polls, uk_platform, uk_user, uk_once>>

NextUserKey == StableUserKey \/ StableUserKeyAgain

\* ---- the unified feed
FP_KEEP == 200
FP_CAP == 500
MaxFeedLen == 3
MaxPolls == 2
FeedTs == {0, 5, 6}
\* a text is its first characters (head), which the fingerprint keeps, and the rest
FeedTexts == {[head |-> 1, tail |-> 0], [head |-> 1, tail |-> 1], [head |-> 2, tail |-> 0]}
FeedPlatform == <<"a">>
FeedUser == KeyOnly(<<"A">>)

\* "platform|ukey|ts|text", cut at 800 characters
_fingerprint_msg(m) == <<FeedPlatform, stable_user_key(FeedPlatform, FeedUser), m.ts, m.text.head>>

LastN(seq, n) == IF Len(seq) <= n THEN seq ELSE SubSeq(seq, Len(seq) - n + 1, Len(seq))

SetMax(T) == CHOOSE x \in T : \A y \in T : y <= x
SetMin(T) == CHOOSE x \in T : \A y \in T : x <= y

\* list.sort(key=ts) is stable
RECURSIVE sort_ts(_, _)
sort_ts(seq, T) ==
    IF T = {} THEN <<>>
    ELSE SelectSeq(seq, LAMBDA m : m.ts = SetMin(T)) \o sort_ts(seq, T \ {SetMin(T)})

sort_by_ts(seq) == sort_ts(seq, {seq[i].ts : i \in 1..Len(seq)})

read_new_records(msgs, offs) ==
    LET last_ts == offs.feed_last_ts
        recent == LastN(offs.feed_recent_fps, FP_CAP)
        recent_set == {recent[i] : i \in 1..Len(recent)}
        new(m) == /\ m.ts > 0
                  /\ \/ m.ts > last_ts
                     \/ m.ts = last_ts /\ _fingerprint_msg(m) \notin recent_set
        out == sort_by_ts(SelectSeq(msgs, new))
        kept == LastN(out, FP_KEEP)
    IN  IF out = <<>>
        THEN [out |-> out, offsets |-> [feed_last_ts |-> last_ts, feed_recent_fps |-> recent]]
        ELSE [out |-> out,
              offsets |-> [feed_last_ts |-> Max(last_ts, SetMax({out[i].ts : i \in 1..Len(out)})),
                           feed_recent_fps |->
                               LastN(recent \o [i \in 1..Len(kept) |-> _fingerprint_msg(kept[i])],
                                     FP_CAP)]]

WithIds(f) == [i \in 1..Len(f) |-> [id |-> i, ts |-> f[i].ts, text |-> f[i].text]]

\* a burst: one message more than the cursor remembers, all with the same timestamp
BurstFeed == [i \in 1..(FP_KEEP + 1) |-> [id |-> i, ts |-> 5, text |-> [head |-> i, tail |-> 0]]]

Feeds ==
    {WithIds(f) : f \in UNION {[1..n -> [ts : FeedTs, text : FeedTexts]] : n \in 0..MaxFeedLen}}
        \cup {BurstFeed}

FeedIdle ==
    /\ feed = <<>>
    /\ offsets = [feed_last_ts |-> 0, feed_recent_fps |-> <<>>]
    /\ emitted = <<>>
    /\ n_polls = 0

\* main, lines 255-266: a cursor without feed_last_ts starts at 0 (process_existing) or
\* at the largest ts of the document
InitFeed ==
    /\ feed \in Feeds
    /\ \E process_existing \in BOOLEAN :
          offsets = [feed_last_ts |-> IF process_existing \/ feed = <<>> THEN 0
                                      ELSE Max(0, SetMax({feed[i].ts : i \in 1..Len(feed)})),
                     feed_recent_fps |-> <<>>]
    /\ emitted = <<>>
    /\ n_polls = 0

\* one pass of the ingestor's loop over the unchanged document
IngestPoll ==
    /\ UNCHANGED <<routerVars, busVars, leaderVars, auxVars>>
    /\ n_polls < MaxPolls
    /\ n_polls' = n_polls + 1
    /\ LET r == read_new_records(feed, offsets)
       IN  /\ emitted' = emitted \o [i \in 1..Len(r.out) |-> r.out[i].id]
           /\ offsets' = r.offsets
    /\ UNCHANGED <<feed, uk_platform, uk_user, uk_once, uk_twice>>

NextIngest == IngestPoll

\* =================================================================== bus cursors
MaxAppended == 2
MaxCrashes == 1
MaxClears == 1

Readers == {"router", "emitter", "gamble"}
FileOf == [r \in Readers |-> CASE r = "router" -> "events_in"
                               [] r = "emitter" -> "replies_out"
                               [] r = "gamble" -> "gamble_inbox"]
BusFiles == {"events_in", "replies_out", "gamble_inbox"}
RecLens == {2, 3}

RECURSIVE SumLen(_)
SumLen(f) == IF f = <<>> THEN 0 ELSE Head(f).len + SumLen(Tail(f))

\* Seek to offset_bytes and read lines to the end of the file. A read that starts
\* inside a record yields a fragment that does not parse: it is skipped and the
\* offset still advances. A seek at or past the end reads nothing.
read_new_jsonl(f, offset_bytes) ==
    LET whole == {i \in 1..Len(f) : SumLen(SubSeq(f, 1, i - 1)) >= offset_bytes}
    IN  [items |-> SubSeq(f, Len(f) - Cardinality(whole) + 1, Len(f)),
         off   |-> IF offset_bytes >= SumLen(f) THEN offset_bytes ELSE SumLen(f)]

append_jsonl(files, name, id, len) ==
    [files EXCEPT ![name] = Append(@, [id |-> id, len |-> len])]

\* the records the router writes while it handles the events of one poll: for each
\* event a reply intent and a task for the gamble worker, each a fresh record
RECURSIVE RouterEffects(_, _, _)
RouterEffects(files, items, id) ==
    IF items = <<>> THEN files
    ELSE RouterEffects(append_jsonl(append_jsonl(files, "replies_out", id, Head(items).len),
                                    "gamble_inbox", id + 1, Head(items).len),
                       Tail(items), id + 2)

IdsIn(items) == [i \in 1..Len(items) |-> items[i].id]

load_offset(r) == IF persisted[r] = <<>> THEN 0 ELSE persisted[r][1]

InitBus ==
    /\ bus_file = [f \in BusFiles |-> <<>>]
    /\ persisted = [r \in Readers |-> <<>>]
    /\ mem_off = [r \in Readers |-> 0]
    /\ up = [r \in Readers |-> TRUE]
    /\ batch = [r \in Readers |-> <<>>]
    /\ processed = [r \in Readers |-> <<>>]
    /\ dirty_offsets = FALSE
    /\ rec_id = 1
    /\ n_appended = 0
    /\ n_crashes = 0
    /\ n_clears = 0

\* the ingestor appends one event record
BusAppendEvent(len) ==
    /\ UNCHANGED <<routerVars, leaderVars, ingestVars, auxVars>>
    /\ n_appended < MaxAppended
    /\ n_appended' = n_appended + 1
    /\ bus_file' = append_jsonl(bus_file, "events_in", rec_id, len)
    /\ rec_id' = rec_id + 1
    /\ UNCHANGED <<persisted, mem_off, up, batch, processed, dirty_offsets, n_crashes, n_clears>>

\* RouterBank.poll_events: the offset moves in memory only, then every record read
\* is handled, its replies and tasks appended to their files at once
BusRouterPoll ==
    /\ UNCHANGED <<routerVars, leaderVars, ingestVars, auxVars>>
    /\ up["router"] /\ ~dirty_offsets
    /\ LET r == read_new_jsonl(bus_file["events_in"], mem_off["router"])
       IN  /\ r.off # mem_off["router"]
           /\ mem_off' = [mem_off EXCEPT !["router"] = r.off]
           /\ dirty_offsets' = TRUE
           /\ bus_file' = RouterEffects(bus_file, r.items, rec_id)
           /\ rec_id' = rec_id + 2 * Len(r.items)
           /\ processed' = [processed EXCEPT !["router"] = @ \o IdsIn(r.items)]
    /\ UNCHANGED <<persisted, up, batch, n_appended, n_crashes, n_clears>>

\* RouterBank.poll_events, lines 1074-1082, when process_event raises on the k-th
\* record read: the offset has moved behind all of them, the records before the k-th
\* were handled, the exception leaves poll_events and is caught by run (lines
\* 1136-1146), which skips the rest of the tick, flush included
BusRouterPollRaises(k) ==
    /\ UNCHANGED <<routerVars, leaderVars, ingestVars, auxVars>>
    /\ up["router"] /\ ~dirty_offsets
    /\ LET r == read_new_jsonl(bus_file["events_in"], mem_off["router"])
       IN  /\ k \in 1..Len(r.items)
           /\ mem_off' = [mem_off EXCEPT !["router"] = r.off]
           /\ dirty_offsets' = TRUE
           /\ bus_file' = RouterEffects(bus_file, SubSeq(r.items, 1, k - 1), rec_id)
           /\ rec_id' = rec_id + 2 * (k - 1)
           /\ processed' = [processed EXCEPT !["router"] = @ \o IdsIn(SubSeq(r.items, 1, k))]
    /\ UNCHANGED <<persisted, up, batch, n_appended, n_crashes, n_clears>>

\* RouterBank.flush, at the end of the tick
BusRouterFlush ==
    /\ UNCHANGED <<routerVars, leaderVars, ingestVars, auxVars>>
    /\ up["router"] /\ dirty_offsets
    /\ persisted' = [persisted EXCEPT !["router"] = <<mem_off["router"]>>]
    /\ dirty_offsets' = FALSE
    /\ UNCHANGED <<bus_file, mem_off, up, batch, processed, rec_id, n_appended, n_crashes,
                   n_clears>>

\* the emitter and the gamble worker read, write the offset file, then handle the
\* records (the worker writes it only if the read gave at least one task)
BusRead(r) ==
    /\ UNCHANGED <<routerVars, leaderVars, ingestVars, auxVars>>
    /\ r # "router" /\ up[r] /\ batch[r] = <<>>
    /\ LET got == read_new_jsonl(bus_file[FileOf[r]], mem_off[r])
       IN  /\ got.off # mem_off[r]
           /\ mem_off' = [mem_off EXCEPT ![r] = got.off]
           /\ persisted' = IF r = "gamble" /\ got.items = <<>> THEN persisted
                           ELSE [persisted EXCEPT ![r] = <<got.off>>]
           /\ batch' = [batch EXCEPT ![r] = got.items]
    /\ UNCHANGED <<bus_file, up, processed, dirty_offsets, rec_id, n_appended, n_crashes,
                   n_clears>>

BusHandle(r) ==
    /\ UNCHANGED <<routerVars, leaderVars, ingestVars, auxVars>>
    /\ r # "router" /\ up[r] /\ batch[r] # <<>>
    /\ processed' = [processed EXCEPT ![r] = Append(@, Head(batch[r]).id)]
    /\ batch' = [batch EXCEPT ![r] = Tail(@)]
    /\ UNCHANGED <<bus_file, persisted, mem_off, up, dirty_offsets, rec_id, n_appended,
                   n_crashes, n_clears>>

\* a reader is killed: what it held in memory is gone
BusCrash(r) ==
    /\ UNCHANGED <<routerVars, leaderVars, ingestVars, auxVars>>
    /\ up[r] /\ n_crashes < MaxCrashes
    /\ n_crashes' = n_crashes + 1
    /\ up' = [up EXCEPT ![r] = FALSE]
    /\ batch' = [batch EXCEPT ![r] = <<>>]
    /\ dirty_offsets' = IF r = "router" THEN FALSE ELSE dirty_offsets
    /\ UNCHANGED <<bus_file, persisted, mem_off, processed, rec_id, n_appended, n_clears>>

\* a reader starts: it loads its offsets file, 0 when the file is absent
BusStart(r) ==
    /\ UNCHANGED <<routerVars, leaderVars, ingestVars, auxVars>>
    /\ ~up[r]
    /\ up' = [up EXCEPT ![r] = TRUE]
    /\ mem_off' = [mem_off EXCEPT ![r] = load_offset(r)]
    /\ UNCHANGED <<bus_file, persisted, batch, processed, dirty_offsets, rec_id, n_appended,
                   n_crashes, n_clears>>

\* the operator stops the services, each at the end of its loop
BusStopAll ==
    /\ UNCHANGED <<routerVars, leaderVars, ingestVars, auxVars>>
    /\ \E r \in Readers : up[r]
    /\ \A r \in Readers : batch[r] = <<>>
    /\ ~dirty_offsets
    /\ up' = [r \in Readers |-> FALSE]
    /\ UNCHANGED <<bus_file, persisted, mem_off, batch, processed, dirty_offsets, rec_id,
                   n_appended, n_crashes, n_clears>>

\* clear_chatmanager_data.main, run with the services stopped: --pipeline empties
\* every bus file, --state deletes the offsets files under ChatManager/state (the
\* router's and the emitter's; the workers keep theirs under Bots/<bot>/state)
BusClear(pipeline, state) ==
    /\ UNCHANGED <<routerVars, leaderVars, ingestVars, auxVars>>
    /\ \A r \in Readers : ~up[r]
    /\ pipeline \/ state
    /\ n_clears < MaxClears
    /\ n_clears' = n_clears + 1
    /\ bus_file' = IF pipeline THEN [f \in BusFiles |-> <<>>] ELSE bus_file
    /\ persisted' = IF state THEN [r \in Readers |-> IF r \in {"router", "emitter"} THEN <<>>
                                                     ELSE persisted[r]]
                    ELSE persisted
    /\ UNCHANGED <<mem_off, up, batch, processed, dirty_offsets, rec_id, n_appended, n_crashes>>

NextBus ==
    \/ \E len \in RecLens : BusAppendEvent(len)
    \/ BusRouterPoll
    \/ BusRouterFlush
    \/ \E r \in Readers : BusRead(r)
    \/ \E r \in Readers : BusHandle(r)
    \/ \E r \in Readers : BusCrash(r)
    \/ \E r \in Readers : BusStart(r)
    \/ BusStopAll
    \/ \E pipeline, state \in BOOLEAN : BusClear(pipeline, state)

\* the router's event polling, with process_event failing on some records
NextPollRaise ==
    \/ \E len \in RecLens : BusAppendEvent(len)
    \/ BusRouterPoll
    \/ \E k \in 1..MaxAppended : BusRouterPollRaises(k)
    \/ BusRouterFlush
    \/ BusRead("emitter")
    \/ BusHandle("emitter")

\* =================================================================== leader lock
LOCK_TTL_SEC == 8
HEARTBEAT_EVERY_SEC == 1
HB_MISSING_AGE == 1000000000

Procs == {"primary", "secondary"}

\* a faulty variant: a missing heartbeat file counts as fresh
hb_age_missing_is_fresh == IF hb = <<>> THEN 0 ELSE hb[1]

_hb_age_sec == IF hb = <<>> THEN HB_MISSING_AGE ELSE hb[1]

InitLeader ==
    /\ lock = <<>>
    /\ hb = <<>>
    /\ alive = [p \in Procs |-> TRUE]
    /\ pc = [p \in Procs |-> "acquire"]
    /\ is_leader = [p \in Procs |-> FALSE]
    /\ since_hb = [p \in Procs |-> HEARTBEAT_EVERY_SEC]
    /\ served = {}

Goto(p, where) == pc' = [pc EXCEPT ![p] = where]

\* one second passes
LeaderTick ==
    /\ UNCHANGED <<routerVars, busVars, ingestVars, auxVars>>
    /\ hb' = IF hb = <<>> THEN hb ELSE <<Min(hb[1] + 1, LOCK_TTL_SEC + 1)>>
    /\ since_hb' = [p \in Procs |-> Min(since_hb[p] + 1, HEARTBEAT_EVERY_SEC)]
    /\ UNCHANGED <<lock, alive, pc, is_leader, served>>

\* main, not leader: _try_create_lock (O_CREAT | O_EXCL)
TryCreateLock(p) ==
    /\ UNCHANGED <<routerVars, busVars, ingestVars, auxVars>>
    /\ alive[p] /\ pc[p] = "acquire"
    /\ IF lock = <<>>
       THEN lock' = <<p>> /\ is_leader' = [is_leader EXCEPT ![p] = TRUE] /\ Goto(p, "first_hb")
       ELSE UNCHANGED <<lock, is_leader>> /\ Goto(p, "steal_exists")
    /\ UNCHANGED <<hb, alive, since_hb, served>>

\* _steal_lock_if_stale: os.path.exists(LEADER_LOCK_FILE)
StealExists(p) ==
    /\ UNCHANGED <<routerVars, busVars, ingestVars, auxVars>>
    /\ alive[p] /\ pc[p] = "steal_exists"
    /\ Goto(p, IF lock = <<>> THEN "steal_create" ELSE "steal_age")
    /\ UNCHANGED <<lock, hb, alive, is_leader, since_hb, served>>

\* _steal_lock_if_stale: _hb_age_sec() > LOCK_TTL_SEC, else standby and retry
StealAge(p) ==
    /\ UNCHANGED <<routerVars, busVars, ingestVars, auxVars>>
    /\ alive[p] /\ pc[p] = "steal_age"
    /\ Goto(p, IF _hb_age_sec > LOCK_TTL_SEC THEN "steal_rm_lock" ELSE "acquire")
    /\ UNCHANGED <<lock, hb, alive, is_leader, since_hb, served>>

\* _steal_lock_if_stale: os.remove(LEADER_LOCK_FILE)
StealRemoveLock(p) ==
    /\ UNCHANGED <<routerVars, busVars, ingestVars, auxVars>>
    /\ alive[p] /\ pc[p] = "steal_rm_lock"
    /\ lock' = <<>>
    /\ Goto(p, "steal_rm_hb")
    /\ UNCHANGED <<hb, alive, is_leader, since_hb, served>>

\* _steal_lock_if_stale: os.remove(LEADER_HB_FILE)
StealRemoveHb(p) ==
    /\ UNCHANGED <<routerVars, busVars, ingestVars, auxVars>>
    /\ alive[p] /\ pc[p] = "steal_rm_hb"
    /\ hb' = <<>>
    /\ Goto(p, "steal_create")
    /\ UNCHANGED <<lock, alive, is_leader, since_hb, served>>

\* _steal_lock_if_stale: return _try_create_lock(...)
StealCreate(p) ==
    /\ UNCHANGED <<routerVars, busVars, ingestVars, auxVars>>
    /\ alive[p] /\ pc[p] = "steal_create"
    /\ IF lock = <<>>
       THEN lock' = <<p>> /\ is_leader' = [is_leader EXCEPT ![p] = TRUE] /\ Goto(p, "first_hb")
       ELSE UNCHANGED <<lock, is_leader>> /\ Goto(p, "acquire")
    /\ UNCHANGED <<hb, alive, since_hb, served>>

\* main, just promoted: make_spotify(), then leader_heartbeat
FirstHeartbeat(p) ==
    /\ UNCHANGED <<routerVars, busVars, ingestVars, auxVars>>
    /\ alive[p] /\ pc[p] = "first_hb"
    /\ hb' = <<0>>
    /\ since_hb' = [since_hb EXCEPT ![p] = 0]
    /\ Goto(p, "hb_check")
    /\ UNCHANGED <<lock, alive, is_leader, served>>

\* main, leader: heartbeat when HEARTBEAT_EVERY_SEC have passed
Heartbeat(p) ==
    /\ UNCHANGED <<routerVars, busVars, ingestVars, auxVars>>
    /\ alive[p] /\ pc[p] = "hb_check"
    /\ IF since_hb[p] >= HEARTBEAT_EVERY_SEC
       THEN hb' = <<0>> /\ since_hb' = [since_hb EXCEPT ![p] = 0]
       ELSE UNCHANGED <<hb, since_hb>>
    /\ Goto(p, "lock_exists")
    /\ UNCHANGED <<lock, alive, is_leader, served>>

\* main, leader: os.path.exists(LEADER_LOCK_FILE)
LockExists(p) ==
    /\ UNCHANGED <<routerVars, busVars, ingestVars, auxVars>>
    /\ alive[p] /\ pc[p] = "lock_exists"
    /\ Goto(p, IF lock = <<>> THEN "inbox" ELSE "lock_read")
    /\ UNCHANGED <<lock, hb, alive, is_leader, since_hb, served>>

\* main, leader: _read_lock, and standby when the pid in it is another's (a lock
\* gone in between reads as {}: pid -1)
LockRead(p) ==
    /\ UNCHANGED <<routerVars, busVars, ingestVars, auxVars>>
    /\ alive[p] /\ pc[p] = "lock_read"
    /\ IF lock = <<p>>
       THEN UNCHANGED is_leader /\ Goto(p, "inbox")
       ELSE is_leader' = [is_leader EXCEPT ![p] = FALSE] /\ Goto(p, "acquire")
    /\ UNCHANGED <<lock, hb, alive, since_hb, served>>

\* main, leader: the pass over the inbox
ServeInbox(p) ==
    /\ UNCHANGED <<routerVars, busVars, ingestVars, auxVars>>
    /\ alive[p] /\ pc[p] = "inbox"
    /\ served' = served \cup {p}
    /\ Goto(p, "hb_check")
    /\ UNCHANGED <<lock, hb, alive, is_leader, since_hb>>

\* a worker process is killed while the other keeps running; its files stay, and
\* is_leader[p] keeps what the process held when it died
Kill(p) ==
    /\ UNCHANGED <<routerVars, busVars, ingestVars, auxVars>>
    /\ \A q \in Procs : alive[q]
    /\ alive' = [alive EXCEPT ![p] = FALSE]
    /\ UNCHANGED <<lock, hb, pc, is_leader, since_hb, served>>

ProcStep(p) ==
    \/ TryCreateLock(p)
    \/ StealExists(p)
    \/ StealAge(p)
    \/ StealRemoveLock(p)
    \/ StealRemoveHb(p)
    \/ StealCreate(p)
    \/ FirstHeartbeat(p)
    \/ Heartbeat(p)
    \/ LockExists(p)
    \/ LockRead(p)
    \/ ServeInbox(p)

NextLeader ==
    \/ LeaderTick
    \/ \E p \in Procs : ProcStep(p)
    \/ \E p \in Procs : Kill(p)

\* ------------------------------------------------------------ bot workers' main loops
MaxTasks == 2
WorkerBots == {"gamble", "spotify"}

WorkIdle ==
    /\ wk_inbox = [b \in WorkerBots |-> <<>>]
    /\ wk_off = [b \in WorkerBots |-> 0]
    /\ wk_batch = <<>>
    /\ wk_outbox = [b \in WorkerBots |-> <<>>]
    /\ wk_ack = [b \in WorkerBots |-> <<>>]

\* what the task handler does with a task: return a result, return an error status
\* (music worker only), or raise
HandlerOutcomes(b) == IF b = "gamble" THEN {"ok", "raises"} ELSE {"ok", "error", "raises"}

\* the outbox and ack file of one worker
Files(b) == [outbox |-> wk_outbox[b], ack |-> wk_ack[b]]

\* Gamble worker, lines 134-150: the try block
gamble_try(F, task) ==
    [outbox |-> Append(F.outbox, [type |-> "reply", task_id |-> task.task_id,
                                  result_code |-> "SPUN", blocking_ms |-> 1700]),
     ack |-> Append(F.ack, [type |-> "ack", task_id |-> task.task_id, status |-> "ok"])]

\* a faulty variant: a handler that raises is acknowledged but not answered
gamble_except_ack_only(F, task) ==
    [outbox |-> F.outbox,
     ack |-> Append(F.ack, [type |-> "ack", task_id |-> task.task_id, status |-> "error"])]

\* Gamble worker, lines 152-179: the except block
gamble_except(F, task) ==
    [outbox |-> Append(F.outbox, [type |-> "reply", task_id |-> task.task_id,
                                  result_code |-> "ERROR", blocking_ms |-> 0]),
     ack |-> Append(F.ack, [type |-> "ack", task_id |-> task.task_id, status |-> "error"])]

send_reply(F, task_id, messages) ==
    [F EXCEPT !.outbox = Append(@, [type |-> "reply", task_id |-> task_id,
                                    messages |-> messages])]

send_ack(F, task_id, status) ==
    [F EXCEPT !.ack = Append(@, [type |-> "ack", task_id |-> task_id, status |-> status])]

\* Spotify worker, lines 389-392: handle_task returned (msgs, status)
spotify_try(F, task, status) ==
    send_ack(send_reply(F, task.task_id, IF status = "ok" THEN <<"done">> ELSE <<"failed">>),
             task.task_id, IF status = "ok" THEN "ok" ELSE "error")

\* Spotify worker, lines 393-396: handle_task raised
spotify_except(F, task) ==
    send_ack(send_reply(F, task.task_id, <<"exception">>), task.task_id, "error")

\* the router appends a task record to a worker's inbox
AppendTask(b) ==
    /\ UNCHANGED <<coreVars, bootVars, diskVars, staleVars, glockVars, supVars, emitVars, tailVars>>
    /\ Len(wk_inbox[b]) < MaxTasks
    /\ wk_inbox' = [wk_inbox EXCEPT ![b] =
                        Append(@, [type |-> "task", task_id |-> <<"t", Len(@) + 1>>, bot |-> b])]
    /\ UNCHANGED <<wk_off, wk_batch, wk_outbox, wk_ack>>

\* Gamble worker, lines 126-129: read the new lines, persist the offset behind them
GambleRead ==
    /\ UNCHANGED <<coreVars, bootVars, diskVars, staleVars, glockVars, supVars, emitVars, tailVars>>
    /\ wk_batch = <<>>
    /\ wk_off["gamble"] < Len(wk_inbox["gamble"])
    /\ wk_batch' = SubSeq(wk_inbox["gamble"], wk_off["gamble"] + 1, Len(wk_inbox["gamble"]))
    /\ wk_off' = [wk_off EXCEPT !["gamble"] = Len(wk_inbox["gamble"])]
    /\ UNCHANGED <<wk_inbox, wk_outbox, wk_ack>>

\* Gamble worker, lines 131-179: one iteration of `for task in tasks`
GambleTask(outcome) ==
    /\ UNCHANGED <<coreVars, bootVars, diskVars, staleVars, glockVars, supVars, emitVars, tailVars>>
    /\ wk_batch # <<>>
    /\ LET F == IF outcome = "ok" THEN gamble_try(Files("gamble"), Head(wk_batch))
                ELSE gamble_except(Files("gamble"), Head(wk_batch))
       IN  /\ wk_outbox' = [wk_outbox EXCEPT !["gamble"] = F.outbox]
           /\ wk_ack' = [wk_ack EXCEPT !["gamble"] = F.ack]
    /\ wk_batch' = Tail(wk_batch)
    /\ UNCHANGED <<wk_inbox, wk_off>>

\* Spotify worker, lines 375-396: one iteration of the loop over the inbox records; the
\* offset is persisted before the record is handled
SpotifyRecord(outcome) ==
    /\ UNCHANGED <<coreVars, bootVars, diskVars, staleVars, glockVars, supVars, emitVars, tailVars>>
    /\ wk_off["spotify"] < Len(wk_inbox["spotify"])
    /\ wk_off' = [wk_off EXCEPT !["spotify"] = @ + 1]
    /\ LET rec == wk_inbox["spotify"][wk_off["spotify"] + 1]
           F == IF rec.type # "task" \/ rec.task_id = NoId THEN Files("spotify")
                ELSE IF outcome = "raises" THEN spotify_except(Files("spotify"), rec)
                ELSE spotify_try(Files("spotify"), rec, outcome)
       IN  /\ wk_outbox' = [wk_outbox EXCEPT !["spotify"] = F.outbox]
           /\ wk_ack' = [wk_ack EXCEPT !["spotify"] = F.ack]
    /\ UNCHANGED <<wk_inbox, wk_batch>>

NextWorkers ==
    \/ \E b \in WorkerBots : AppendTask(b)
    \/ GambleRead
    \/ \E o \in HandlerOutcomes("gamble") : GambleTask(o)
    \/ \E o \in HandlerOutcomes("spotify") : SpotifyRecord(o)

\* ------------------------------------------------------ the gamble worker's lock
\* Two gamble worker processes, known by their pids, and the pid of a process that died
\* and left its lock behind.
GambleProcs == {1, 2}
DeadPid == 9

GLockIdle ==
    /\ gl_lock = <<>>
    /\ gl_pc = [p \in GambleProcs |-> "idle"]
    /\ gl_pid = [p \in GambleProcs |-> 0]

\* main() starts with no lock, or with the lock of a process that is gone
InitGLock ==
    /\ gl_lock \in {<<>>, <<[owner |-> DeadPid, pid |-> DeadPid]>>}
    /\ gl_pc = [p \in GambleProcs |-> "idle"]
    /\ gl_pid = [p \in GambleProcs |-> 0]

\* lines 90-95: psutil says the process is running
_pid_alive(pid) == pid \in GambleProcs /\ gl_pc[pid] \notin {"idle", "exited", "dead"}

\* the lock file is open in a running process (its creator keeps lock_fd until it ends)
HeldOpen == gl_lock # <<>> /\ _pid_alive(gl_lock[1].owner)

GLStep(p, from, to) ==
    /\ gl_pc[p] = from
    /\ gl_pc' = [gl_pc EXCEPT ![p] = to]

GLStart(p) ==
    /\ UNCHANGED <<coreVars, bootVars, diskVars, staleVars, workVars, supVars, emitVars, tailVars>>
    /\ GLStep(p, "idle", "exists")
    /\ UNCHANGED <<gl_lock, gl_pid>>

\* line 97: if lock_path.exists()
GLExists(p) ==
    /\ UNCHANGED <<coreVars, bootVars, diskVars, staleVars, workVars, supVars, emitVars, tailVars>>
    /\ GLStep(p, "exists", IF gl_lock # <<>> THEN "read" ELSE "create")
    /\ UNCHANGED <<gl_lock, gl_pid>>

\* lines 98-102: read the pid; a file that is gone or still empty gives pid 0
GLRead(p) ==
    /\ UNCHANGED <<coreVars, bootVars, diskVars, staleVars, workVars, supVars, emitVars, tailVars>>
    /\ GLStep(p, "read", "alive")
    /\ gl_pid' = [gl_pid EXCEPT ![p] = IF gl_lock = <<>> THEN 0 ELSE gl_lock[1].pid]
    /\ UNCHANGED gl_lock

\* lines 103-105: exit when the pid is running
GLAlive(p) ==
    /\ UNCHANGED <<coreVars, bootVars, diskVars, staleVars, workVars, supVars, emitVars, tailVars>>
    /\ GLStep(p, "alive", IF gl_pid[p] # 0 /\ _pid_alive(gl_pid[p]) THEN "exited" ELSE "unlink")
    /\ UNCHANGED <<gl_lock, gl_pid>>

\* lines 107-111: unlink(missing_ok=True); removing a file that a running process holds
\* open succeeds on macOS and raises on Windows, where the worker then exits
GLUnlink(p) ==
    /\ UNCHANGED <<coreVars, bootVars, diskVars, staleVars, workVars, supVars, emitVars, tailVars>>
    /\ \/ GLStep(p, "unlink", "create") /\ gl_lock' = <<>>
       \/ HeldOpen /\ GLStep(p, "unlink", "exited") /\ UNCHANGED gl_lock
    /\ UNCHANGED gl_pid

\* line 115: os.open(O_CREAT | O_EXCL); FileExistsError ends the worker
GLCreate(p) ==
    /\ UNCHANGED <<coreVars, bootVars, diskVars, staleVars, workVars, supVars, emitVars, tailVars>>
    /\ IF gl_lock = <<>>
       THEN GLStep(p, "create", "write") /\ gl_lock' = <<[owner |-> p, pid |-> 0]>>
       ELSE GLStep(p, "create", "exited") /\ UNCHANGED gl_lock
    /\ UNCHANGED gl_pid

\* line 116: os.write(lock_fd, pid), into the file this process created; then the loop
GLWrite(p) ==
    /\ UNCHANGED <<coreVars, bootVars, diskVars, staleVars, workVars, supVars, emitVars, tailVars>>
    /\ GLStep(p, "write", "loop")
    /\ gl_lock' = IF gl_lock # <<>> /\ gl_lock[1].owner = p
                  THEN <<[owner |-> p, pid |-> p]>> ELSE gl_lock
    /\ UNCHANGED gl_pid

\* lines 183-188: the loop ends with an exception or an interrupt; finally removes
\* lock_path, or fails quietly where another running process holds the file open
GLStop(p) ==
    /\ UNCHANGED <<coreVars, bootVars, diskVars, staleVars, workVars, supVars, emitVars, tailVars>>
    /\ GLStep(p, "loop", "exited")
    /\ \/ gl_lock' = <<>>
       \/ gl_lock # <<>> /\ gl_lock[1].owner # p /\ HeldOpen /\ UNCHANGED gl_lock
    /\ UNCHANGED gl_pid

\* the process is killed in its loop: the lock stays
GLKill(p) ==
    /\ UNCHANGED <<coreVars, bootVars, diskVars, staleVars, workVars, supVars, emitVars, tailVars>>
    /\ GLStep(p, "loop", "dead")
    /\ UNCHANGED <<gl_lock, gl_pid>>

NextGLock ==
    \E p \in GambleProcs :
        \/ GLStart(p)
        \/ GLExists(p)
        \/ GLRead(p)
        \/ GLAlive(p)
        \/ GLUnlink(p)
        \/ GLCreate(p)
        \/ GLWrite(p)
        \/ GLStop(p)
        \/ GLKill(p)

\* --------------------------------------------- the supervisor: building the workers
MaxInstances == 2
MAX_INSTANCES == 16
SupBots == {"gamble", "spotify"}
HaModes == {"", "active_standby", "active_active"}

\* one entry of the "bots" list of the configuration
BotEntries ==
    [id : SupBots, enabled : BOOLEAN, ha : HaModes, instances : 0..MaxInstances]

\* the bots lists: one entry, or two (possibly for the same id)
BotLists == {<<b>> : b \in BotEntries} \cup {<<a, b>> : a \in BotEntries, b \in BotEntries}

\* --no-workers, --allow-duplicate-inbox, and the bot ids whose worker.py exists
SupArgs == [no_workers : BOOLEAN, allow_duplicate_inbox : BOOLEAN, scripts : SUBSET SupBots]

\* the processes the supervisor watches while it runs: a service and a worker
SupProcs == {"CM.router_bank", "W.gamble#0"}

SupIdle ==
    /\ sv_cfg = <<>>
    /\ sv_args = [no_workers |-> FALSE, allow_duplicate_inbox |-> FALSE, scripts |-> {}]
    /\ sv_procs = <<>>
    /\ sv_now = 0
    /\ sv_up = [p \in SupProcs |-> TRUE]
    /\ sv_restarts = [p \in SupProcs |-> <<>>]
    /\ sv_log = [p \in SupProcs |-> <<>>]

RECURSIVE _instances_from_cfg(_, _)
_instances_from_cfg(cfg, bot_id) ==
    IF cfg = <<>> THEN 1
    ELSE IF Head(cfg).id = bot_id /\ Head(cfg).enabled
    THEN Max(1, Min(MAX_INSTANCES, IF Head(cfg).instances = 0 THEN 1 ELSE Head(cfg).instances))
    ELSE _instances_from_cfg(Tail(cfg), bot_id)

\* a faulty variant: the configured number is used whatever the HA mode
worker_instances_as_configured(ha, cfg_instances, allow_duplicate_inbox) == cfg_instances

\* build, lines 321-335: how many processes a worker entry gets
worker_instances(ha, cfg_instances, allow_duplicate_inbox) ==
    IF cfg_instances > 1
    THEN IF ha = "active_standby" THEN cfg_instances
         ELSE IF allow_duplicate_inbox THEN cfg_instances
         ELSE 1
    ELSE 1

\* build, lines 301-361: the loop over the bots list; procs is keyed by process name,
\* a name added again replaces the earlier entry
RECURSIVE build_workers(_, _, _, _)
build_workers(procs, rest, cfg, args) ==
    IF rest = <<>> THEN procs
    ELSE LET b == Head(rest)
             instances == worker_instances(b.ha, _instances_from_cfg(cfg, b.id),
                                           args.allow_duplicate_inbox)
         IN  IF ~b.enabled \/ b.id \notin args.scripts
             THEN build_workers(procs, Tail(rest), cfg, args)
             ELSE build_workers(procs \cup {<<b.id, i>> : i \in 0..(instances - 1)},
                                Tail(rest), cfg, args)

build(cfg, args) == IF args.no_workers THEN {} ELSE build_workers({}, cfg, cfg, args)

InitBuild ==
    /\ sv_cfg \in BotLists
    /\ sv_args \in SupArgs
    /\ sv_procs = <<>>
    /\ sv_now = 0
    /\ sv_up = [p \in SupProcs |-> TRUE]
    /\ sv_restarts = [p \in SupProcs |-> <<>>]
    /\ sv_log = [p \in SupProcs |-> <<>>]

Build ==
    /\ UNCHANGED <<coreVars, bootVars, diskVars, staleVars, workVars, glockVars, emitVars, tailVars>>
    /\ sv_procs = <<>>
    /\ sv_procs' = <<build(sv_cfg, sv_args)>>
    /\ UNCHANGED <<sv_cfg, sv_args, sv_now, sv_up, sv_restarts, sv_log>>

NextBuild == Build

\* ------------------------------------------------- the supervisor: restart bookkeeping
\* ProcSpec defaults, scaled down (the code has 30 restarts in 300 seconds)
max_restarts == 2
restart_window_sec == 3
MaxSupTime == 5

ProcSpecOf(p) ==
    [name |-> p, restart |-> TRUE, max_restarts |-> max_restarts,
     restart_window_sec |-> restart_window_sec]

RECURSIVE KeepRecent(_, _, _)
KeepRecent(restarts, t, window) ==
    IF restarts = <<>> THEN <<>>
    ELSE IF (t - Head(restarts)) <= window
    THEN <<Head(restarts)>> \o KeepRecent(Tail(restarts), t, window)
    ELSE KeepRecent(Tail(restarts), t, window)

\* a faulty variant: the list is pruned but its length is not tested
_restart_unlimited(ps, spec, t) ==
    IF ~spec.restart THEN [ps EXCEPT !.restarted = FALSE]
    ELSE [restarts |-> Append(KeepRecent(ps.restarts, t, spec.restart_window_sec), t),
          up |-> TRUE, restarted |-> TRUE]

\* _restart, lines 181-201; ps = [restarts, up], the result says whether it restarted
_restart(ps, spec, t) ==
    IF ~spec.restart THEN [ps EXCEPT !.restarted = FALSE]
    ELSE LET kept == KeepRecent(ps.restarts, t, spec.restart_window_sec)
         IN  IF Len(kept) >= spec.max_restarts
             THEN [restarts |-> kept, up |-> ps.up, restarted |-> FALSE]
             ELSE [restarts |-> Append(kept, t), up |-> TRUE, restarted |-> TRUE]

ProcStateOf(p) == [restarts |-> sv_restarts[p], up |-> sv_up[p], restarted |-> FALSE]

InitRestart ==
    /\ sv_cfg = <<>>
    /\ sv_args = [no_workers |-> FALSE, allow_duplicate_inbox |-> FALSE, scripts |-> {}]
    /\ sv_procs = <<>>
    /\ sv_now = 0
    /\ sv_up = [p \in SupProcs |-> TRUE]
    /\ sv_restarts = [p \in SupProcs |-> <<>>]
    /\ sv_log = [p \in SupProcs |-> <<>>]

SupTick ==
    /\ UNCHANGED <<coreVars, bootVars, diskVars, staleVars, workVars, glockVars, emitVars, tailVars>>
    /\ sv_now < MaxSupTime
    /\ sv_now' = sv_now + 1
    /\ UNCHANGED <<sv_cfg, sv_args, sv_procs, sv_up, sv_restarts, sv_log>>

\* a supervised process ends by itself
ProcExit(p) ==
    /\ UNCHANGED <<coreVars, bootVars, diskVars, staleVars, workVars, glockVars, emitVars, tailVars>>
    /\ sv_up[p]
    /\ sv_up' = [sv_up EXCEPT ![p] = FALSE]
    /\ UNCHANGED <<sv_cfg, sv_args, sv_procs, sv_now, sv_restarts, sv_log>>

\* run, lines 447-465: one call of _restart from the loop, for a process that exited
\* (crash detection), a service whose files are stale, or a worker with a stale backlog
SupRestart(p, reason) ==
    /\ UNCHANGED <<coreVars, bootVars, diskVars, staleVars, workVars, glockVars, emitVars, tailVars>>
    /\ reason = "exit_code" => ~sv_up[p]
    /\ reason = "stale" => p = "CM.router_bank"
    /\ reason = "backlog_stale" => p = "W.gamble#0"
    /\ LET ps == _restart(ProcStateOf(p), ProcSpecOf(p), sv_now)
       IN  /\ sv_restarts' = [sv_restarts EXCEPT ![p] = ps.restarts]
           /\ sv_up' = [sv_up EXCEPT ![p] = ps.up]
           /\ sv_log' = [sv_log EXCEPT ![p] = IF ps.restarted THEN Append(@, sv_now) ELSE @]
    /\ UNCHANGED <<sv_cfg, sv_args, sv_procs, sv_now>>

RestartReasons == {"exit_code", "stale", "backlog_stale"}

NextRestart ==
    \/ SupTick
    \/ \E p \in SupProcs : ProcExit(p)
    \/ \E p \in SupProcs, r \in RestartReasons : SupRestart(p, r)

\* -------------------------------------------------------------------- the emitter
MaxIntents == 2
overlay_max == 400
TRIM_SLACK == 50
Platforms == {"youtube", "tiktok"}
overlay_only_prefixes == {"tiktok"}

\* ssn.enabled, a usable ssn.session, overlay_fallback.enabled, overlay_fallback.chat_file
EmitConfigs ==
    [ssn_enabled : BOOLEAN, has_session : BOOLEAN, overlay_enabled : BOOLEAN,
     has_chat_file : BOOLEAN]

EmitIdle ==
    /\ em_cfg = [ssn_enabled |-> FALSE, has_session |-> FALSE, overlay_enabled |-> TRUE,
                 has_chat_file |-> FALSE]
    /\ em_intents = <<>>
    /\ em_off = 0
    /\ em_batch = <<>>
    /\ em_sent = <<>>
    /\ em_overlay = <<>>

InitEmit ==
    /\ em_cfg \in EmitConfigs
    /\ em_intents = <<>>
    /\ em_off = 0
    /\ em_batch = <<>>
    /\ em_sent = <<>>
    /\ em_overlay = <<>>

is_overlay_only(platform) == platform \in overlay_only_prefixes

\* ssn_send, lines 95-107: False without a session, else whether the relay answered 2xx
ssn_send(cfg, http_ok) == IF ~cfg.has_session THEN FALSE ELSE http_ok

trim_jsonl(lines, max_lines) ==
    IF max_lines <= 0 THEN lines
    ELSE IF Len(lines) > max_lines + TRIM_SLACK THEN LastN(lines, max_lines)
    ELSE lines

ChatRecord(r) == [type |-> "chat", platform |-> r.platform, id |-> r.id]

\* the emitter's two outputs: what the relay accepted, and the overlay chat file
Routes == [sent |-> em_sent, overlay |-> em_overlay]

to_overlay(R, r) ==
    [R EXCEPT !.overlay = trim_jsonl(Append(@, ChatRecord(r)), overlay_max)]

\* a faulty variant: the overlay file gets the message whether or not it was sent
emit_intent_both(R, cfg, r, http_ok) ==
    IF is_overlay_only(r.platform)
    THEN IF cfg.overlay_enabled /\ cfg.has_chat_file THEN to_overlay(R, r) ELSE R
    ELSE LET sent == IF cfg.ssn_enabled THEN ssn_send(cfg, http_ok) ELSE FALSE
             R1 == IF sent THEN [R EXCEPT !.sent = Append(@, r.id)] ELSE R
         IN  IF cfg.overlay_enabled /\ cfg.has_chat_file THEN to_overlay(R1, r) ELSE R1

\* main, lines 256-290: one reply intent
emit_intent(R, cfg, r, http_ok) ==
    IF is_overlay_only(r.platform)
    THEN IF cfg.overlay_enabled /\ cfg.has_chat_file THEN to_overlay(R, r) ELSE R
    ELSE LET sent == IF cfg.ssn_enabled THEN ssn_send(cfg, http_ok) ELSE FALSE
             R1 == IF sent THEN [R EXCEPT !.sent = Append(@, r.id)] ELSE R
         IN  IF (~sent) /\ cfg.overlay_enabled /\ cfg.has_chat_file
             THEN to_overlay(R1, r) ELSE R1

\* the router appends a reply intent to replies.outbox.jsonl
ReplyIntent(platform) ==
    /\ UNCHANGED <<coreVars, bootVars, diskVars, staleVars, workVars, glockVars, supVars, tailVars>>
    /\ Len(em_intents) < MaxIntents
    /\ em_intents' = Append(em_intents, [type |-> "reply_intent", platform |-> platform,
                                         id |-> Len(em_intents) + 1])
    /\ UNCHANGED <<em_cfg, em_off, em_batch, em_sent, em_overlay>>

\* main, lines 242-246: read the new records, persist the offset behind them
EmitterRead ==
    /\ UNCHANGED <<coreVars, bootVars, diskVars, staleVars, workVars, glockVars, supVars, tailVars>>
    /\ em_batch = <<>>
    /\ em_off < Len(em_intents)
    /\ em_batch' = SubSeq(em_intents, em_off + 1, Len(em_intents))
    /\ em_off' = Len(em_intents)
    /\ UNCHANGED <<em_cfg, em_intents, em_sent, em_overlay>>

\* main, lines 248-290: one iteration of `for r in rrec`; http_ok is the relay's answer
EmitterRecord(http_ok) ==
    /\ UNCHANGED <<coreVars, bootVars, diskVars, staleVars, workVars, glockVars, supVars, tailVars>>
    /\ em_batch # <<>>
    /\ LET R == IF Head(em_batch).type # "reply_intent" THEN Routes
                ELSE emit_intent(Routes, em_cfg, Head(em_batch), http_ok)
       IN  /\ em_sent' = R.sent
           /\ em_overlay' = R.overlay
    /\ em_batch' = Tail(em_batch)
    /\ UNCHANGED <<em_cfg, em_intents, em_off>>

NextEmit ==
    \/ \E pl \in Platforms : ReplyIntent(pl)
    \/ EmitterRead
    \/ \E ok \in BOOLEAN : EmitterRecord(ok)

\* ------------------------------------------------- tailing a bus file, byte by byte
\* A record is the line {n} followed by a newline; the writer may get it into the file
\* in pieces. Three readers tail the file, one for each reading routine.
MaxRecords == 2
NL == "nl"
TailReaders == {"read_new_jsonl", "iter_jsonl_from_offset", "read_jsonl_since"}

TailIdle ==
    /\ tl_file = <<>>
    /\ tl_rest = <<>>
    /\ tl_n = 0
    /\ tl_off = [r \in TailReaders |-> 0]
    /\ tl_got = [r \in TailReaders |-> <<>>]

\* json.dumps(obj) + "\n" for the n-th record
RecordLine(n) == <<"{", ToString(n), "}", NL>>

\* f.readline() at position pos: up to and including the next newline, or up to the end
\* of the file when there is none
readline(file, pos) ==
    LET ends == {i \in (pos + 1)..Len(file) : file[i] = NL}
    IN  IF ends = {} THEN SubSeq(file, pos + 1, Len(file))
        ELSE SubSeq(file, pos + 1, SetMin(ends))

\* line.strip(): the newline at the end is dropped
strip_line(line) ==
    IF line # <<>> /\ line[Len(line)] = NL THEN SubSeq(line, 1, Len(line) - 1) ELSE line

\* json.loads succeeds on a whole record only
json_ok(s) == Len(s) = 3 /\ s[1] = "{" /\ s[3] = "}" /\ s[2] \notin {"{", "}", NL}

\* read_new_jsonl / _read_new_jsonl_lines / read_jsonl_since: the readline loop
RECURSIVE read_loop(_, _, _)
read_loop(file, offset_bytes, items) ==
    LET line == readline(file, offset_bytes) IN
    IF line = <<>> THEN [items |-> items, offset |-> offset_bytes]
    ELSE LET s == strip_line(line)
             off2 == offset_bytes + Len(line)
         IN  IF s = <<>> THEN read_loop(file, off2, items)
             ELSE IF json_ok(s) THEN read_loop(file, off2, Append(items, s[2]))
             ELSE read_loop(file, off2, items)

read_new_jsonl_bytes(file, offset_bytes) == read_loop(file, offset_bytes, <<>>)

read_jsonl_since(file, offset) == read_loop(file, offset, <<>>)

\* iter_jsonl_from_offset: yields (obj, new_off) for every non-blank line, obj = None
\* (here <<>>) for a line that does not parse; the caller stores new_off each time
RECURSIVE iter_jsonl_from_offset(_, _, _)
iter_jsonl_from_offset(file, offset_bytes, yielded) ==
    LET line == readline(file, offset_bytes) IN
    IF line = <<>> THEN yielded
    ELSE LET s == strip_line(line)
             new_off == offset_bytes + Len(line)
         IN  IF s = <<>> THEN iter_jsonl_from_offset(file, new_off, yielded)
             ELSE iter_jsonl_from_offset(file, new_off,
                      Append(yielded, [obj |-> IF json_ok(s) THEN <<s[2]>> ELSE <<>>,
                                       new_off |-> new_off]))

\* Spotify main, lines 375-382: the offset follows every yielded pair, None is skipped
RECURSIVE consume_yielded(_, _, _)
consume_yielded(yielded, off, items) ==
    IF yielded = <<>> THEN [items |-> items, offset |-> off]
    ELSE consume_yielded(Tail(yielded), Head(yielded).new_off, items \o Head(yielded).obj)

poll_file(r, file, off) ==
    IF r = "read_new_jsonl" THEN read_new_jsonl_bytes(file, off)
    ELSE IF r = "read_jsonl_since" THEN read_jsonl_since(file, off)
    ELSE consume_yielded(iter_jsonl_from_offset(file, off, <<>>), off, <<>>)

\* the writer starts a record
StartRecord ==
    /\ UNCHANGED <<coreVars, bootVars, diskVars, staleVars, workVars, glockVars, supVars, emitVars>>
    /\ tl_rest = <<>>
    /\ tl_n < MaxRecords
    /\ tl_n' = tl_n + 1
    /\ tl_rest' = RecordLine(tl_n + 1)
    /\ UNCHANGED <<tl_file, tl_off, tl_got>>

\* the next k bytes of the record reach the file
WriteBytes(k) ==
    /\ UNCHANGED <<coreVars, bootVars, diskVars, staleVars, workVars, glockVars, supVars, emitVars>>
    /\ k \in 1..Len(tl_rest)
    /\ tl_file' = tl_file \o SubSeq(tl_rest, 1, k)
    /\ tl_rest' = SubSeq(tl_rest, k + 1, Len(tl_rest))
    /\ UNCHANGED <<tl_n, tl_off, tl_got>>

\* a reader polls the file from its offset
TailPoll(r) ==
    /\ UNCHANGED <<coreVars, bootVars, diskVars, staleVars, workVars, glockVars, supVars, emitVars>>
    /\ tl_off[r] < Len(tl_file)
    /\ LET res == poll_file(r, tl_file, tl_off[r])
       IN  /\ tl_off' = [tl_off EXCEPT ![r] = res.offset]
           /\ tl_got' = [tl_got EXCEPT ![r] = @ \o res.items]
    /\ UNCHANGED <<tl_file, tl_rest, tl_n>>

NextTail ==
    \/ StartRecord
    \/ \E k \in 1..Len(tl_rest) : WriteBytes(k)
    \/ \E r \in TailReaders : TailPoll(r)

\* ------------------------------------------------- spins that did not happen
\* One viewer wagers 5 points on the slots and 5 on a game the worker does not host.
GlitchInputs(t) ==
    {Ev("chat", "yt:ann", "slots", "5", t), Ev("chat", "yt:ann", "dice", "5", t)}

\* Gamble worker, lines 152-179: run_game_task raised; the reply of the except block
GambleErrorReply(task) ==
    [type |-> "reply", task_id |-> task.task_id,
     game |-> [has_bet |-> TRUE, bet |-> task.bet, result_code |-> "ERROR", has_payout |-> TRUE,
               payout |-> 0, symbols |-> <<>>, has_mult |-> FALSE, mult |-> 0],
     messages |-> <<"glitched">>, overlay_events |-> <<>>, blocking_ms |-> 0]

GambleWorkerRaises ==
    /\ UNCHANGED <<busVars, leaderVars, ingestVars, auxVars>>
    /\ worker_off["gamble"] < Len(inbox["gamble"])
    /\ outbox' = [outbox EXCEPT !["gamble"] =
                     Append(@, GambleErrorReply(inbox["gamble"][worker_off["gamble"] + 1]))]
    /\ worker_off' = [worker_off EXCEPT !["gamble"] = @ + 1]
    /\ UNCHANGED <<now, ticks, n_events, user_state, gq, inflight, ledger, replies_out,
                   overlay_out, inbox, deadletter, standby_off, router_off, recent_cmd_exact,
                   recent_cmd_loose, last_active_award_ts, next_id, start_points, terminated>>

NextGlitch ==
    \/ \E d \in GateSteps : Tick(d)
    \/ \E ev \in GlitchInputs(now) : PollEvents(ev)
    \/ MaybeDispatchGamble
    \/ \E reels \in Reels : GambleWorker(reels)
    \/ GambleWorkerRaises
    \/ PollBotOutboxes

\* ------------------------------------------------- earning while away
\* a minute passes, or a viewer stays away for twice the active window
EarnSteps == {60, 2 * active_window_seconds}

EarnInputs(t) == {Ev("like", "yt:ann", "", "", t), Ev("share", "yt:cat", "", "", t),
                  Ev("like", "yt:bob", "", "", t)}

NextEarn ==
    \/ \E d \in EarnSteps : Tick(d)
    \/ AwardTick
    \/ \E ev \in EarnInputs(now) : PollEvents(ev)

\* ------------------------------------------------- a worker's start-up and the music
\* worker's failover: which inbox records a starting or succeeding process handles
MaxBootTasks == 2
BootProcs == {"gamble", "spotify#0", "spotify#1"}
BotOf(p) == IF p = "gamble" THEN "gamble" ELSE "spotify"

BootIdle ==
    /\ bt_inbox = [b \in WorkerBots |-> 0]
    /\ bt_offsets = [b \in WorkerBots |-> <<>>]
    /\ bt_state = [p \in BootProcs |-> "down"]
    /\ bt_off = [p \in BootProcs |-> 0]
    /\ bt_seeded = [p \in BootProcs |-> <<>>]
    /\ bt_handled = [p \in BootProcs |-> <<>>]

\* Gamble worker, lines 80-81: _load_json with the default {"inbox_offset_bytes": 0}
gamble_load_offset(file) == IF file = <<>> THEN 0 ELSE file[1]

\* Spotify worker, lines 305-320: the offset of offsets.json, else the inbox's size
spotify_load_offset(file, inbox_size) == IF file # <<>> THEN file[1] ELSE inbox_size

\* the router appends a task record to a worker's inbox
BootAppend(b) ==
    /\ UNCHANGED <<coreVars, workVars, glockVars, supVars, emitVars, tailVars, diskVars, staleVars>>
    /\ bt_inbox[b] < MaxBootTasks
    /\ bt_inbox' = [bt_inbox EXCEPT ![b] = @ + 1]
    /\ UNCHANGED <<bt_offsets, bt_state, bt_off, bt_seeded, bt_handled>>

\* Gamble worker, main up to the poll loop: the offset is loaded, the lock is taken
GambleStart ==
    /\ UNCHANGED <<coreVars, workVars, glockVars, supVars, emitVars, tailVars, diskVars, staleVars>>
    /\ bt_state["gamble"] = "down"
    /\ bt_off' = [bt_off EXCEPT !["gamble"] = gamble_load_offset(bt_offsets["gamble"])]
    /\ bt_seeded' = [bt_seeded EXCEPT !["gamble"] =
                         IF bt_offsets["gamble"] = <<>> THEN <<bt_inbox["gamble"]>> ELSE <<>>]
    /\ bt_state' = [bt_state EXCEPT !["gamble"] = "leader"]
    /\ UNCHANGED <<bt_inbox, bt_offsets, bt_handled>>

\* Gamble worker, lines 126-181: one turn of the poll loop
GambleLoop ==
    /\ UNCHANGED <<coreVars, workVars, glockVars, supVars, emitVars, tailVars, diskVars, staleVars>>
    /\ bt_state["gamble"] = "leader"
    /\ bt_off["gamble"] < bt_inbox["gamble"]
    /\ bt_off' = [bt_off EXCEPT !["gamble"] = bt_inbox["gamble"]]
    /\ bt_offsets' = [bt_offsets EXCEPT !["gamble"] = <<bt_inbox["gamble"]>>]
    /\ bt_handled' = [bt_handled EXCEPT !["gamble"] =
                          @ \o [i \in 1..(bt_inbox["gamble"] - bt_off["gamble"]) |->
                                    bt_off["gamble"] + i]]
    /\ UNCHANGED <<bt_inbox, bt_state, bt_seeded>>

\* Spotify worker, main lines 297-335: offsets.json is read once; without the key
\* inbox_offset_bytes the cursor is the inbox's size, which is written back
SpotifyStart(p) ==
    /\ UNCHANGED <<coreVars, workVars, glockVars, supVars, emitVars, tailVars, diskVars, staleVars>>
    /\ p # "gamble" /\ bt_state[p] = "down"
    /\ LET off == spotify_load_offset(bt_offsets["spotify"], bt_inbox["spotify"])
       IN  /\ bt_off' = [bt_off EXCEPT ![p] = off]
           /\ bt_offsets' = [bt_offsets EXCEPT !["spotify"] = <<off>>]
    /\ bt_seeded' = [bt_seeded EXCEPT ![p] =
                         IF bt_offsets["spotify"] = <<>> THEN <<bt_inbox["spotify"]>> ELSE <<>>]
    /\ bt_state' = [bt_state EXCEPT ![p] = "standby"]
    /\ UNCHANGED <<bt_inbox, bt_handled>>

\* Spotify worker, lines 343-351: a standby process creates leader.lock, or steals it
\* once the heartbeat of a dead leader is stale; its cursor is the one it holds
SpotifyLead(p) ==
    /\ UNCHANGED <<coreVars, workVars, glockVars, supVars, emitVars, tailVars, diskVars, staleVars>>
    /\ p # "gamble" /\ bt_state[p] = "standby"
    /\ \A q \in BootProcs : BotOf(q) = "spotify" => bt_state[q] # "leader"
    /\ bt_state' = [bt_state EXCEPT ![p] = "leader"]
    /\ UNCHANGED <<bt_inbox, bt_offsets, bt_off, bt_seeded, bt_handled>>

\* Spotify worker, lines 374-396: the leader takes the next inbox record, persists
\* the offset behind it, handles it and replies
SpotifyServe(p) ==
    /\ UNCHANGED <<coreVars, workVars, glockVars, supVars, emitVars, tailVars, diskVars, staleVars>>
    /\ p # "gamble" /\ bt_state[p] = "leader"
    /\ bt_off[p] < bt_inbox["spotify"]
    /\ bt_off' = [bt_off EXCEPT ![p] = @ + 1]
    /\ bt_offsets' = [bt_offsets EXCEPT !["spotify"] = <<bt_off[p] + 1>>]
    /\ bt_handled' = [bt_handled EXCEPT ![p] = Append(@, bt_off[p] + 1)]
    /\ UNCHANGED <<bt_inbox, bt_state, bt_seeded>>

\* a running music worker process is killed
BootKill(p) ==
    /\ UNCHANGED <<coreVars, workVars, glockVars, supVars, emitVars, tailVars, diskVars, staleVars>>
    /\ p # "gamble" /\ bt_state[p] \in {"standby", "leader"}
    /\ bt_state' = [bt_state EXCEPT ![p] = "dead"]
    /\ UNCHANGED <<bt_inbox, bt_offsets, bt_off, bt_seeded, bt_handled>>

NextBoot ==
    \/ \E b \in WorkerBots : BootAppend(b)
    \/ GambleStart
    \/ GambleLoop
    \/ \E p \in BootProcs : SpotifyStart(p)
    \/ \E p \in BootProcs : SpotifyLead(p)
    \/ \E p \in BootProcs : SpotifyServe(p)
    \/ \E p \in BootProcs : BootKill(p)

\* ------------------------------------------------- the router's state files and a
\* restart of the router or of the gamble worker in the middle of its work
MaxRouterCrashes == 1

DiskIdle ==
    /\ dk_user_state = <<>>
    /\ dk_router_off = [b \in bots |-> 0]
    /\ dk_inflight = <<>>
    /\ dk_n_events = 0
    /\ dk_crashes = 0

\* the router was started from these files
InitDisk ==
    /\ dk_user_state = user_state
    /\ dk_router_off = [b \in bots |-> 0]
    /\ dk_inflight = <<>>
    /\ dk_n_events = 0
    /\ dk_crashes = 0

CrashInputs(t) == {Ev("chat", "yt:ann", "slots", "5", t)}

\* RouterBank.flush, lines 1117-1127, at the end of a tick
Flush ==
    /\ UNCHANGED <<coreVars, workVars, glockVars, supVars, emitVars, tailVars, bootVars, staleVars>>
    /\ <<dk_user_state, dk_inflight, dk_router_off, dk_n_events>>
           # <<user_state, inflight, router_off, n_events>>
    /\ dk_user_state' = user_state
    /\ dk_inflight' = inflight
    /\ dk_router_off' = router_off
    /\ dk_n_events' = n_events
    /\ UNCHANGED dk_crashes

\* RouterBank.__init__, lines 366-424, after the process was killed: user_state,
\* inflight and offsets are what flush last wrote; the gamble queue, written at every
\* change, and the append-only files are as the dead process left them
restart_router ==
    /\ user_state' = dk_user_state
    /\ inflight' = dk_inflight
    /\ router_off' = dk_router_off
    /\ recent_cmd_exact' = {}
    /\ recent_cmd_loose' = {}
    /\ last_active_award_ts' = now
    /\ dk_crashes' = dk_crashes + 1
    /\ UNCHANGED <<busVars, leaderVars, ingestVars, workVars, glockVars, supVars, emitVars,
                   tailVars, bootVars, staleVars>>
    /\ UNCHANGED <<now, ticks, n_events, ledger, replies_out, overlay_out, outbox, deadletter,
                   worker_off, standby_off, next_id, start_points, terminated>>
    /\ UNCHANGED <<dk_user_state, dk_router_off, dk_inflight, dk_n_events>>

\* the router is killed between two handlers of a tick, no event read since the last
\* flush, and started again
RouterCrash ==
    /\ dk_crashes < MaxRouterCrashes
    /\ n_events = dk_n_events
    /\ restart_router
    /\ UNCHANGED <<gq, inbox>>

\* maybe_dispatch_gamble, lines 966-974: the router is killed after
\* pop_next_for_dispatch saved the queue file and before append_jsonl wrote the task
DispatchCrash ==
    /\ dk_crashes < MaxRouterCrashes
    /\ n_events = dk_n_events
    /\ can_dispatch(gq, now)
    /\ gq' = pop_next_for_dispatch(gq)
    /\ restart_router
    /\ UNCHANGED inbox

\* Gamble worker, lines 126-131: the worker is killed after it persisted the offset
\* behind the tasks it read and before it replied; started again, it reads on from
\* that offset
GambleWorkerCrash ==
    /\ UNCHANGED <<busVars, leaderVars, ingestVars, auxVars>>
    /\ worker_off["gamble"] < Len(inbox["gamble"])
    /\ worker_off' = [worker_off EXCEPT !["gamble"] = Len(inbox["gamble"])]
    /\ UNCHANGED <<now, ticks, n_events, user_state, gq, inflight, ledger, replies_out,
                   overlay_out, inbox, outbox, deadletter, standby_off, router_off,
                   recent_cmd_exact, recent_cmd_loose, last_active_award_ts, next_id,
                   start_points, terminated>>

NextCrash ==
    \/ \E d \in GateSteps : Tick(d)
    \/ \E ev \in CrashInputs(now) : PollEvents(ev)
    \/ MaybeDispatchGamble
    \/ \E reels \in Reels : GambleWorker(reels)
    \/ PollBotOutboxes
    \/ Flush
    \/ RouterCrash
    \/ DispatchCrash
    \/ GambleWorkerCrash

\* ------------------------------------------------- the supervisor: staleness restarts
\* --stale-services and --stale-workers, scaled down (the defaults are 45 and 60 s)
stale_services == 3
stale_workers == 3
MaxStaleTime == 8
\* _restart sleeps 0.8 s after terminate and backoff_sec after kill: whole seconds
TERMINATE_WAIT == 1
backoff_sec == 1

StaleFiles == {"replies_out", "gamble.inbox", "gamble.ack"}

StaleIdle == sl_mtime = [f \in StaleFiles |-> 0]

mtime(f) == sl_mtime[f]

\* _health_activity_sources: the router's witness files (one worker configured)
RouterSources == {"replies_out", "gamble.inbox"}

_is_stale(paths, stale_sec, t) ==
    LET newest == SetMax({0} \cup {mtime(p) : p \in paths})
    IN  IF newest <= 0 THEN FALSE ELSE t - newest > stale_sec

_worker_backlog_stale(stale_sec, t) ==
    IF mtime("gamble.inbox") <= 0 THEN FALSE
    ELSE IF mtime("gamble.inbox") > mtime("gamble.ack")
    THEN t - mtime("gamble.inbox") > stale_sec
    ELSE FALSE

InitStale ==
    /\ sv_cfg = <<>>
    /\ sv_args = [no_workers |-> FALSE, allow_duplicate_inbox |-> FALSE, scripts |-> {}]
    /\ sv_procs = <<>>
    /\ sv_now = 1
    /\ sv_up = [p \in SupProcs |-> TRUE]
    /\ sv_restarts = [p \in SupProcs |-> <<>>]
    /\ sv_log = [p \in SupProcs |-> <<>>]
    /\ sl_mtime = [f \in StaleFiles |-> 0]

\* a component appends to one of the files
Touch(f) ==
    /\ UNCHANGED <<coreVars, workVars, glockVars, supVars, emitVars, tailVars, bootVars, diskVars>>
    /\ sl_mtime[f] # sv_now
    /\ sl_mtime' = [sl_mtime EXCEPT ![f] = sv_now]

\* run, lines 452-465, with --restart-stale: the router is restarted when its witness
\* files are stale, then the gamble worker when its backlog is; each _restart sleeps
StaleCheck ==
    /\ UNCHANGED <<coreVars, workVars, glockVars, emitVars, tailVars, bootVars, diskVars>>
    /\ sv_now < MaxStaleTime
    /\ LET t0 == sv_now
           r == IF _is_stale(RouterSources, stale_services, t0)
                THEN _restart(ProcStateOf("CM.router_bank"), ProcSpecOf("CM.router_bank"), t0)
                ELSE ProcStateOf("CM.router_bank")
           t1 == IF r.restarted THEN t0 + TERMINATE_WAIT + backoff_sec ELSE t0
           w == IF _worker_backlog_stale(stale_workers, t1)
                THEN _restart(ProcStateOf("W.gamble#0"), ProcSpecOf("W.gamble#0"), t1)
                ELSE ProcStateOf("W.gamble#0")
           t2 == IF w.restarted THEN t1 + TERMINATE_WAIT + backoff_sec ELSE t1
       IN  /\ r.restarted \/ w.restarted
           /\ sv_restarts' = [sv_restarts EXCEPT !["CM.router_bank"] = r.restarts,
                                                 !["W.gamble#0"] = w.restarts]
           /\ sv_up' = [sv_up EXCEPT !["CM.router_bank"] = r.up, !["W.gamble#0"] = w.up]
           /\ sv_log' = [sv_log EXCEPT
                            !["CM.router_bank"] = IF r.restarted THEN Append(@, t0) ELSE @,
                            !["W.gamble#0"] = IF w.restarted THEN Append(@, t1) ELSE @]
           /\ sv_now' = t2
    /\ UNCHANGED <<sv_cfg, sv_args, sv_procs, sl_mtime>>

NextStale ==
    \/ SupTick
    \/ \E f \in StaleFiles : Touch(f)
    \/ StaleCheck

\* =================================================================== specifications
\* every subsystem but the named one is at rest
CoreIdle == InitRouter /\ InitBus /\ InitLeader /\ FeedIdle /\ UserKeyIdle

AuxIdle(active) ==
    /\ IF active = "work" THEN TRUE ELSE WorkIdle
    /\ IF active = "glock" THEN TRUE ELSE GLockIdle
    /\ IF active \in {"sup", "stale"} THEN TRUE ELSE SupIdle
    /\ IF active = "emit" THEN TRUE ELSE EmitIdle
    /\ IF active = "tail" THEN TRUE ELSE TailIdle
    /\ IF active = "boot" THEN TRUE ELSE BootIdle
    /\ IF active = "disk" THEN TRUE ELSE DiskIdle
    /\ IF active = "stale" THEN TRUE ELSE StaleIdle

vars == <<routerVars, busVars, leaderVars, ingestVars, auxVars>>

Init == InitRouter /\ InitBus /\ InitLeader /\ FeedIdle /\ UserKeyIdle /\ AuxIdle("none")

Spec == Init /\ [][NextRouter]_vars

SpecGate == Init /\ [][NextGate]_vars
InitIngest == InitRouter /\ InitBus /\ InitLeader /\ InitFeed /\ UserKeyIdle /\ AuxIdle("none")
SpecIngest == InitIngest /\ [][NextIngest]_vars
InitScoping == InitRouter /\ InitBus /\ InitLeader /\ FeedIdle /\ InitUserKey /\ AuxIdle("none")
InitGambleLock == CoreIdle /\ AuxIdle("glock") /\ InitGLock
SpecGambleLock == InitGambleLock /\ [][NextGLock]_vars
InitSupBuild == CoreIdle /\ AuxIdle("sup") /\ InitBuild
SpecBuild == InitSupBuild /\ [][NextBuild]_vars
InitSupRestart == CoreIdle /\ AuxIdle("sup") /\ InitRestart
SpecRestart == InitSupRestart /\ [][NextRestart]_vars
InitEmitter == CoreIdle /\ AuxIdle("emit") /\ InitEmit
SpecEmitter == InitEmitter /\ [][NextEmit]_vars
InitTail == CoreIdle /\ AuxIdle("tail") /\ TailIdle
SpecTail == InitTail /\ [][NextTail]_vars
InitWorkers == CoreIdle /\ AuxIdle("work") /\ WorkIdle
SpecWorkers == InitWorkers /\ [][NextWorkers]_vars
SpecUserKey == InitScoping /\ [][NextUserKey]_vars
SpecReplies == Init /\ [][NextReplies]_vars

SpecSlots == Init /\ [][NextSlots]_vars
SpecGlitch == Init /\ [][NextGlitch]_vars
SpecEarn == Init /\ [][NextEarn]_vars
InitBoot == CoreIdle /\ AuxIdle("boot") /\ BootIdle
SpecBoot == InitBoot /\ [][NextBoot]_vars
InitCrash == CoreIdle /\ AuxIdle("disk") /\ InitDisk
SpecCrash == InitCrash /\ [][NextCrash]_vars
\* the router's loop and the gamble worker's loop keep running
SpecCrashFair ==
    /\ InitCrash
    /\ [][NextCrash]_vars
    /\ WF_vars(MaybeDispatchGamble)
    /\ WF_vars(PollBotOutboxes)
    /\ WF_vars(Flush)
    /\ WF_vars(\E reels \in Reels : GambleWorker(reels))
InitStaleness == CoreIdle /\ AuxIdle("stale") /\ InitStale
SpecStale == InitStaleness /\ [][NextStale]_vars
SpecBus == Init /\ [][NextBus]_vars
SpecPollRaise == Init /\ [][NextPollRaise]_vars

SpecLeader == Init /\ [][NextLeader]_vars

\* every running worker process keeps looping and time keeps passing
SpecLeaderFair ==
    /\ Init
    /\ [][NextLeader]_vars
    /\ WF_vars(LeaderTick)
    /\ \A p \in Procs : WF_vars(ProcStep(p))

\* =================================================================== claims
RECURSIVE SumDelta(_, _)
SumDelta(l, u) ==
    IF l = <<>> THEN 0
    ELSE (IF Head(l).user_key = u THEN Head(l).delta ELSE 0) + SumDelta(Tail(l), u)

IdsOf(q) == {q[i].task_id : i \in 1..Len(q)}
TimesTerminated(id) == Cardinality({i \in 1..Len(terminated) : terminated[i] = id})
OrphanIds(b) == {deadletter[b][i].record.task_id : i \in 1..Len(deadletter[b])}
GambleOutstanding == {id \in IdsOf(inbox["gamble"]) : TimesTerminated(id) = 0}

\* C1: in every reachable router state every user's points are >= 0.
C1_PointsNeverNegative == \A u \in DOMAIN user_state : user_state[u].points >= 0

\* C1 witness: a gamble completion whose net loss exceeded the user's balance was
\* recorded (before + delta < 0) and the balance stands at 0.
C1_Witness_ClampedLoss ==
    \E i \in 1..Len(ledger) :
        /\ ledger[i].before + ledger[i].delta < 0
        /\ ledger[i].after = 0
        /\ user_state[ledger[i].user_key].points = 0

\* C2 (as claimed): for every user the ledger's deltas sum to current points minus
\* the points the user started with.
C2_LedgerSumEqualsPointChange ==
    \A u \in Users :
        SumDelta(ledger, u)
            = (IF u \in DOMAIN user_state THEN user_state[u].points ELSE 0) - start_points[u]

\* C3: at most one gamble task is outstanding (appended to the gamble inbox, its
\* reply not yet processed by the router), that task is the one in the active
\* slot, and the queue file holds at most one active task.
C3_AtMostOneGambleOutstanding ==
    /\ Cardinality(GambleOutstanding) <= 1
    /\ Len(gq.active) <= 1
    /\ \A id \in GambleOutstanding : gq.active # <<>> /\ gq.active[1].task_id = id

\* C3 witness: one task is outstanding while another waits in the queue and the
\* busy window is over, so only the active slot holds the second task back.
C3_Witness_SecondTaskHeldBack ==
    /\ Cardinality(GambleOutstanding) = 1
    /\ gq.queue # <<>>
    /\ now >= gq.busy_until_ts

\* C4: a step appends to the gamble inbox only if active is null, now >= busy_until_ts
\* and the queue is non-empty; and a dispatch step taken while active is not null or
\* now < busy_until_ts leaves the queue, the active slot and the gamble inbox unchanged.
C4_DispatchOnlyWhenFree ==
    [][/\ (inbox'["gamble"] # inbox["gamble"])
            => (gq.active = <<>> /\ now >= gq.busy_until_ts /\ gq.queue # <<>>)
       /\ (MaybeDispatchGamble /\ (gq.active # <<>> \/ now < gq.busy_until_ts))
            => (gq' = gq /\ inbox' = inbox)]_vars

\* C4 witness: a completed spin left the busy window open (now < busy_until_ts) with
\* the active slot empty and a task waiting: the dispatch step is blocked by time alone.
C4_Witness_BlockedByBusyWindow ==
    /\ gq.active = <<>>
    /\ now < gq.busy_until_ts
    /\ gq.queue # <<>>
    /\ Len(inbox["gamble"]) = 1

\* C5: gamble tasks reach the gamble inbox in the order they were enqueued. Task ids
\* are drawn in enqueue order, so the ids of the inbox followed by those of the queue
\* must be increasing.
C5_GambleFifo ==
    LET seq == inbox["gamble"] \o gq.queue
    IN  \A i, j \in 1..Len(seq) : i < j => seq[i].task_id[2] < seq[j].task_id[2]

\* C5 witness: two tasks have been dispatched, one after the other.
C5_Witness_TwoDispatched == Len(inbox["gamble"]) = 2

\* C6 (as claimed): every dispatched task id, of any bot, has had exactly one
\* terminating reply processed or is still in the inflight map; and no id is in an
\* inflight entry and in an orphan_reply deadletter record at once.
C6_DispatchedRepliedOrInflight ==
    /\ \A b \in bots : \A id \in IdsOf(inbox[b]) :
          TimesTerminated(id) = 1 \/ id \in DOMAIN inflight
    /\ \A b \in bots : OrphanIds(b) \cap DOMAIN inflight = {}

\* C6 (amended): a task dispatched to a non-gamble worker is in the inflight map with
\* no reply processed, or out of it with exactly one; a dispatched gamble task is the
\* active task with no reply processed, or not active with exactly one; and no id is in
\* an inflight entry and in an orphan_reply deadletter record at once.
C6_DispatchedRepliedOrTracked ==
    /\ \A b \in bots \ {"gamble"} : \A id \in IdsOf(inbox[b]) :
          \/ id \in DOMAIN inflight /\ TimesTerminated(id) = 0
          \/ id \notin DOMAIN inflight /\ TimesTerminated(id) = 1
    /\ \A id \in IdsOf(inbox["gamble"]) :
          \/ active_task_id(gq) = id /\ TimesTerminated(id) = 0
          \/ active_task_id(gq) # id /\ TimesTerminated(id) = 1
    /\ \A b \in bots : OrphanIds(b) \cap DOMAIN inflight = {}

\* C6 witness: a music task got its reply and then a second one (filed as an orphan),
\* while a gamble task is dispatched and awaits its reply.
C6_Witness_OrphanAndActive ==
    /\ \E id \in OrphanIds("spotify") : TimesTerminated(id) = 1
    /\ gq.active # <<>>
    /\ active_task_id(gq) \in IdsOf(inbox["gamble"])

NoRepeat(q) == \A i, j \in 1..Len(q) : i # j => q[i] # q[j]

\* C7 (as claimed): for every reader of a bus file the persisted byte offset is at
\* most the size of the file, also after the clear-data tool has run.
C7_PersistedOffsetWithinFile ==
    \A r \in Readers : persisted[r] # <<>> => persisted[r][1] <= SumLen(bus_file[FileOf[r]])

\* C8 (as claimed): across crashes and restarts (the clear-data tool not run), no
\* reader handles a record whose effects it had already produced.
C8_NoRecordConsumedTwice ==
    n_clears = 0 => \A r \in Readers : NoRepeat(processed[r])

\* C9 (as claimed): at any instant at most one running music worker process has
\* is_leader = TRUE.
C9_AtMostOneLeader ==
    Cardinality({p \in Procs : alive[p] /\ is_leader[p]}) <= 1

\* C10: if the leader is killed while the other process keeps running, the other
\* eventually is leader: it holds leader.lock, it heartbeats and it has served the inbox.
C10_StandbyTakesOver ==
    \A p, q \in Procs :
        (p # q /\ ~alive[p] /\ is_leader[p] /\ alive[q])
            ~> (is_leader[q] /\ lock = <<q>> /\ hb # <<>> /\ q \in served)

\* C10 witness: the killed process died holding the lock, and the other one, which
\* had never served before the kill, now holds the lock, heartbeats and has served.
C10_Witness_TookOverStaleLock ==
    \E p, q \in Procs :
        /\ p # q /\ ~alive[p] /\ is_leader[p] /\ alive[q]
        /\ p \in served /\ pc[p] = "inbox"
        /\ is_leader[q] /\ lock = <<q>> /\ hb # <<>> /\ q \in served
\* ---------------------------------------------------------------------------
\* what a step did, in the terms of the claims below
ExactKey(ev) == <<ev.user_key, ev.reply_name, ev.cmd, ev.args, ev.ts>>

NoDispatch ==
    /\ inbox' = inbox
    /\ gq' = gq
    /\ inflight' = inflight
    /\ replies_out' = replies_out
    /\ ledger' = ledger

\* C11: a chat event whose (user_key, reply_name, cmd, args, ts) was already processed
\* at most 15 s ago produces no worker task, no gamble enqueue and no reply.
C11_ExactDuplicateDropped ==
    [][\A ev \in GateInputs(now) :
          (/\ PollEvents(ev)
           /\ \E e \in recent_cmd_exact :
                 e.k = ExactKey(ev) /\ now - e.t0 <= recent_cmd_window_exact_sec)
          => NoDispatch]_vars

\* the repeat came 3 s after the first: the loose window had let it go, the exact one
\* alone absorbed it, and one music task stands in the inbox
C11_Witness_SecondAbsorbed ==
    /\ n_events = 2
    /\ now = StartTime + 3
    /\ Len(inbox["spotify"]) = 1
    /\ recent_cmd_loose = {}
    /\ \E e \in recent_cmd_exact : e.k = ExactKey(EvT("chat", "yt:ann", "EVERYONE", "sr", "song",
                                                      StartTime)) /\ e.t0 = StartTime

\* C12 (as claimed): over repeated polls of the same unchanged feed document, with the
\* cursor kept, no message of the document is returned twice.
C12_EachMessageEmittedAtMostOnce == NoRepeat(emitted)

\* C13: scoping a key that stable_user_key has already scoped, under the same platform,
\* returns it unchanged.
C13_UserKeyIdempotent == uk_twice # <<>> => uk_twice = uk_once

\* a bare key got the platform prefix the first time and kept it, once, the second time
C13_Witness_PrefixAddedOnce ==
    /\ uk_twice # <<>>
    /\ uk_platform = <<"A">>
    /\ uk_user.key = <<" ", "a", "A">>
    /\ uk_once = <<<<"a", ":", "a", "A">>>>

\* the wagers a user holds: the bets of their queued tasks and of the active one
ReservedOf(u) == SumBets(gq.queue \o gq.active, u)

\* C14: when a user who already holds wagers bets "max" or "all" and the wager is
\* queued, its amount is their points less the wagers held, and so less than their points.
C14_MaxBetIsPointsMinusReserved ==
    [][\A ev \in SlotsInputs(now) :
          (/\ PollEvents(ev)
           /\ ev.args \in {"max", "all"}
           /\ ReservedOf(ev.user_key) > 0
           /\ Len(gq'.queue) = Len(gq.queue) + 1)
          => LET task == gq'.queue[Len(gq'.queue)]
                 points == user_state'[ev.user_key].points
             IN  /\ task.bet = points - ReservedOf(ev.user_key)
                 /\ task.bet < points]_vars

\* 5 of 12 points were held, 2 more were earned by the message: "max" wagered 9 of 14
C14_Witness_MaxAfterWager ==
    /\ user_state["yt:ann"].points = 14
    /\ ReservedOf("yt:ann") = 14
    /\ gq.queue # <<>>
    /\ gq.queue[Len(gq.queue)].bet = 9

LooseKey(ev) == <<ev.user_key, ev.reply_name, ev.cmd, ev.args>>

\* the event repeats a command still held by one of the two windows
DedupDrops(ev) ==
    \/ \E x \in recent_cmd_exact :
          x.k = ExactKey(ev) /\ now - x.t0 <= recent_cmd_window_exact_sec
    \/ \E x \in recent_cmd_loose :
          x.k = LooseKey(ev) /\ now - x.t0 <= recent_cmd_window_loose_sec

PointsOf(u) == IF u \in DOMAIN user_state THEN user_state[u].points ELSE 0
LastExec(u, c) == IF u \in DOMAIN user_state THEN user_state[u].cooldowns[c] ELSE 0
NewReplies == SubSeq(replies_out', Len(replies_out) + 1, Len(replies_out'))

\* C15: a command with a bypass tier, sent by the broadcaster, never gets a cooldown
\* reply, and unless it repeats a recent command or cannot be paid it is dispatched,
\* however recently the broadcaster last ran it.
C15_BroadcasterBypassesCooldown ==
    [][\A ev \in GateInputs(now) :
          (/\ PollEvents(ev)
           /\ ev.tier = "BROADCASTER"
           /\ ev.cmd \in DOMAIN commands
           /\ commands[ev.cmd].cooldown_bypass_tier # "")
          => /\ \A i \in 1..Len(NewReplies) :
                   NewReplies[i].text \notin {"cooldown", "receipt_not_charged_cooldown"}
             /\ (/\ ~DedupDrops(ev)
                 /\ PointsOf(ev.user_key) + points_per_message >= commands[ev.cmd].cost_points)
                => Len(inbox'[commands[ev.cmd].bot]) = Len(inbox[commands[ev.cmd].bot]) + 1]_vars

\* the broadcaster asked for two songs in the same second: both are in the inbox
C15_Witness_TwoSongsSameSecond ==
    /\ Len(inbox["spotify"]) = 2
    /\ \A i \in 1..2 : inbox["spotify"][i].user_key = "yt:cat"
    /\ user_state["yt:cat"].cooldowns["sr"] = now
    /\ ticks = 0

\* C16 (as claimed): processing a chat command found in neither index changes the two
\* dedup windows and nothing else.
C16_UnknownCommandChangesOnlyDedup ==
    [][\A ev \in GateInputs(now) :
          (PollEvents(ev) /\ ev.cmd # "" /\ ev.cmd \notin CmdNames)
          => UNCHANGED <<user_state, gq, inflight, ledger, replies_out, overlay_out, inbox,
                         deadletter, next_id>>]_vars

\* C16 (amended): processing a chat command found in neither index deducts no points,
\* queues no task, registers nothing, writes no ledger record and emits no reply;
\* besides the dedup windows only the sender's record changes: the message earns
\* points_per_message and last_seen_ts becomes the current time.
C16_UnknownCommandEarnsOnly ==
    [][\A ev \in GateInputs(now) :
          (PollEvents(ev) /\ ev.cmd # "" /\ ev.cmd \notin CmdNames)
          => /\ UNCHANGED <<gq, inflight, ledger, replies_out, overlay_out, inbox, deadletter,
                            next_id>>
             /\ DOMAIN user_state' = DOMAIN user_state \cup {ev.user_key}
             /\ \A u \in DOMAIN user_state : u # ev.user_key => user_state'[u] = user_state[u]
             /\ user_state'[ev.user_key].points = PointsOf(ev.user_key) + points_per_message
             /\ user_state'[ev.user_key].last_seen_ts = now
             /\ \A c \in CmdNames :
                   user_state'[ev.user_key].cooldowns[c] = LastExec(ev.user_key, c)]_vars

\* the unknown command went through both windows, earned 2 points and left no trace
C16_Witness_UnknownProcessed ==
    /\ \E x \in recent_cmd_loose : x.k[3] = "nope"
    /\ n_events = 1
    /\ user_state["yt:ann"].points = start_points["yt:ann"] + points_per_message
    /\ replies_out = <<>>
    /\ inbox = [b \in bots |-> <<>>]

Unread(b) == SubSeq(outbox[b], router_off[b] + 1, Len(outbox[b]))

\* the record answers no task the router is waiting for
Orphan(rec) ==
    /\ rec.task_id \notin DOMAIN inflight
    /\ gq.active = <<>> \/ gq.active[1].task_id # rec.task_id

\* C18 (as claimed): when the router polls a worker outbox, the gamble worker's
\* included, that holds one unread reply answering no outstanding task, it appends the
\* record to that bot's deadletter as an orphan_reply and leaves points, inflight map,
\* gamble queue and replies unchanged.
C18_OrphanReplyToDeadletter ==
    [][\A b \in bots :
          (/\ PollBotOutboxes
           /\ Len(Unread(b)) = 1
           /\ \A o \in bots \ {b} : Unread(o) = <<>>
           /\ Orphan(Unread(b)[1]))
          => /\ deadletter'[b] =
                   Append(deadletter[b], [type |-> "orphan_reply", record |-> Unread(b)[1]])
             /\ UNCHANGED <<user_state, inflight, gq, replies_out>>]_vars

\* the payout of a gamble reply for the active task a: the worker's, else bet x mult
BetOf(rec, a) == IF rec.game.has_bet THEN rec.game.bet ELSE a.bet
MultOf(rec) ==
    IF rec.game.has_mult THEN rec.game.mult
    ELSE eval_slots(rec.game.symbols, rec.game.result_code, DEFAULT_SLOTS_CONFIG)
PayoutOf(rec, a) ==
    Max(0, IF rec.game.has_payout THEN rec.game.payout ELSE BetOf(rec, a) * MultOf(rec))

\* C19: when the router polls the gamble outbox and finds the reply to the active task,
\* the user's points become max(0, points + payout - bet), one ledger record with
\* delta = payout - bet is written, and the active slot becomes empty.
C19_GambleCompletion ==
    [][(/\ PollBotOutboxes
        /\ gq.active # <<>>
        /\ Len(Unread("gamble")) = 1
        /\ Unread("gamble")[1].task_id = gq.active[1].task_id)
       => LET rec == Unread("gamble")[1]
              a == gq.active[1]
              net == PayoutOf(rec, a) - BetOf(rec, a)
          IN  /\ user_state'[a.user_key].points = Max(0, PointsOf(a.user_key) + net)
              /\ Len(ledger') = Len(ledger) + 1
              /\ ledger'[Len(ledger')].delta = net
              /\ ledger'[Len(ledger')].user_key = a.user_key
              /\ gq'.active = <<>>]_vars

\* a reply without payout for a 5-point wager on three sevens: the router computed
\* 5 x 25, the ledger shows +120 and the active slot is empty
C19_Witness_ComputedPayout ==
    /\ gq.active = <<>>
    /\ router_off["gamble"] = 1
    /\ Len(outbox["gamble"]) = 1
    /\ ~outbox["gamble"][1].game.has_payout
    /\ ledger # <<>>
    /\ ledger[Len(ledger)].note = "slots"
    /\ ledger[Len(ledger)].delta = 120
    /\ user_state["yt:ann"].points = ledger[Len(ledger)].before + 120

\* C20 (as claimed): after a gamble completion whose reply carried blocking_ms = B, the
\* next gamble task is dispatched no sooner than B milliseconds after the completion.
C20_NoDispatchWithinBlockingMs ==
    [][(/\ inbox'["gamble"] # inbox["gamble"]
        /\ terminated # <<>>
        /\ router_off["gamble"] > 0
        /\ outbox["gamble"][router_off["gamble"]].task_id = terminated[Len(terminated)]
        /\ ledger # <<>>
        /\ ledger[Len(ledger)].note = "slots")
       => (now - ledger[Len(ledger)].ts) * 1000
              >= outbox["gamble"][router_off["gamble"]].blocking_ms]_vars

\* the wager a gamble event asks for, given what the sender can spend
AskedBet(ev, spendable) ==
    IF ev.args = "" THEN (IF spendable > 0 THEN Min(DEFAULT_BET, spendable) ELSE 0)
    ELSE IF ev.args \in {"max", "all"} THEN spendable
    ELSE IF IsIntArg(ev.args) THEN Max(0, ParseInt(ev.args))
    ELSE 0

\* C26: a gamble command that reaches the bank with a wager <= 0 or above what the
\* sender can spend (points less wagers held) leaves the gamble queue as it was; an
\* accepted one appends exactly one task, with that wager, at the tail of the queue;
\* in both cases no points are taken (the message's own earning aside).
C26_EnqueueFrame ==
    [][\A ev \in SlotsInputs(now) :
          (PollEvents(ev) /\ ~DedupDrops(ev))
          => LET points == PointsOf(ev.user_key) + points_per_message
                 spendable == Max(0, points - ReservedOf(ev.user_key))
                 bet == AskedBet(ev, spendable)
             IN  /\ user_state'[ev.user_key].points = points
                 /\ gq'.active = gq.active
                 /\ gq'.busy_until_ts = gq.busy_until_ts
                 /\ IF bet <= 0 \/ bet > spendable
                    THEN gq'.queue = gq.queue
                    ELSE /\ Len(gq'.queue) = Len(gq.queue) + 1
                         /\ SubSeq(gq'.queue, 1, Len(gq.queue)) = gq.queue
                         /\ gq'.queue[Len(gq'.queue)].bet = bet
                         /\ gq'.queue[Len(gq'.queue)].user_key = ev.user_key]_vars

\* a wager of 5 was queued and one of 99 was refused: the queue holds the first only
C26_Witness_QueuedAndRefused ==
    /\ n_events = 2
    /\ Len(gq.queue) = 1
    /\ gq.queue[1].bet = 5
    /\ gq.active = <<>>
    /\ \E i \in 1..Len(replies_out) : replies_out[i].text = "max_wager"
    /\ user_state["yt:ann"].points = 14

\* the least whole number of seconds that covers ms milliseconds
CeilSeconds(ms) == (ms + 999) \div 1000

\* C29 (as claimed): when the router handles the reply to the active gamble task, it
\* sets busy_until_ts = now + ceil(blocking_ms / 1000) (1700 ms gives now + 2).
C29_BusyUntilIsCeiling ==
    [][(/\ PollBotOutboxes
        /\ gq.active # <<>>
        /\ Len(Unread("gamble")) = 1
        /\ Unread("gamble")[1].task_id = gq.active[1].task_id
        /\ Unread("gamble")[1].blocking_ms >= 0)
       => gq'.busy_until_ts = now + CeilSeconds(Unread("gamble")[1].blocking_ms)]_vars

\* the cooldown gate holds the event back: the command has a cooldown, the sender is
\* below the bypass tier and ran the command less than cooldown_seconds ago
CooldownBlocks(ev) ==
    LET cdef == commands[ev.cmd] IN
    /\ cdef.cooldown_seconds > 0
    /\ ~(cdef.cooldown_bypass_tier # "" /\ tier_ge(ev.tier, cdef.cooldown_bypass_tier))
    /\ now - LastExec(ev.user_key, ev.cmd) < cdef.cooldown_seconds

\* a command held back is not executed: no cost, no task, no wager, timestamp kept
NotExecuted(ev) ==
    /\ user_state'[ev.user_key].points = PointsOf(ev.user_key) + points_per_message
    /\ inbox' = inbox
    /\ gq' = gq
    /\ inflight' = inflight
    /\ ledger' = ledger
    /\ user_state'[ev.user_key].cooldowns[ev.cmd] = LastExec(ev.user_key, ev.cmd)

\* C30 (as claimed): a bot command held back by the cooldown gate is not executed and
\* keeps its last_exec_ts; in every other case last_exec_ts becomes now.
C30_BlockedOrStamped ==
    [][\A ev \in GateInputs(now) :
          (PollEvents(ev) /\ ev.cmd \in DOMAIN commands)
          => IF CooldownBlocks(ev) THEN NotExecuted(ev)
             ELSE user_state'[ev.user_key].cooldowns[ev.cmd] = now]_vars

\* C30 (amended): a bot command held back by the cooldown gate is not executed and
\* keeps its last_exec_ts; a command that is not a recent duplicate, whose sender has
\* the command's min_tier and which the gate lets through gets last_exec_ts = now,
\* also when it is then refused for lack of points; a recent duplicate and a command
\* below min_tier never reach the gate and keep their last_exec_ts.
C30_BlockedOrStampedAtGate ==
    [][\A ev \in GateInputs(now) :
          (PollEvents(ev) /\ ev.cmd \in DOMAIN commands)
          => IF CooldownBlocks(ev) THEN NotExecuted(ev)
             ELSE IF DedupDrops(ev) \/ ~tier_ge(ev.tier, commands[ev.cmd].min_tier)
             THEN user_state'[ev.user_key].cooldowns[ev.cmd] = LastExec(ev.user_key, ev.cmd)
             ELSE user_state'[ev.user_key].cooldowns[ev.cmd] = now]_vars

\* a viewer's first song was paid and dispatched, their second one in the same second
\* got the cooldown reply: one task, one ledger row, timestamp still the first one's
C30_Witness_HeldBack ==
    /\ n_events = 2
    /\ "yt:ann" \in DOMAIN user_state
    /\ user_state["yt:ann"].cooldowns["sr"] = StartTime
    /\ Len(inbox["spotify"]) = 1
    /\ Len(ledger) = 1
    /\ \E i \in 1..Len(replies_out) : replies_out[i].text = "cooldown"

\* C27 (as claimed): when the router polls bot b's outbox and finds one unread reply
\* whose task_id is inflight for another bot, it appends the record to b's deadletter
\* as an orphan_reply and leaves the inflight map unchanged.
C27_ForeignReplyToDeadletter ==
    [][\A b \in bots :
          (/\ PollBotOutboxes
           /\ Len(Unread(b)) = 1
           /\ \A o \in bots \ {b} : Unread(o) = <<>>
           /\ Unread(b)[1].task_id \in DOMAIN inflight
           /\ inflight[Unread(b)[1].task_id].bot # b)
          => /\ deadletter'[b] =
                   Append(deadletter[b], [type |-> "orphan_reply", record |-> Unread(b)[1]])
             /\ inflight' = inflight]_vars

\* the tasks of worker b's inbox that its loop has finished with
Handled(b) == wk_off[b] - (IF b = "gamble" THEN Len(wk_batch) ELSE 0)

\* the reply is the one the worker writes when the handler raised
ErrorReply(b, rec) ==
    IF b = "gamble" THEN rec.result_code = "ERROR" ELSE rec.messages = <<"exception">>

\* C21: for every task a worker has consumed and handled, its outbox holds exactly one
\* reply and its ack file exactly one ack, in inbox order, whether the handler returned
\* or raised; the reply written for a raising handler has an ack with status error.
C21_OneReplyOneAckPerTask ==
    \A b \in WorkerBots :
        /\ Len(wk_outbox[b]) = Handled(b)
        /\ Len(wk_ack[b]) = Handled(b)
        /\ \A i \in 1..Handled(b) :
              /\ wk_outbox[b][i].type = "reply"
              /\ wk_outbox[b][i].task_id = wk_inbox[b][i].task_id
              /\ wk_ack[b][i].type = "ack"
              /\ wk_ack[b][i].task_id = wk_inbox[b][i].task_id
              /\ ErrorReply(b, wk_outbox[b][i]) => wk_ack[b][i].status = "error"

\* both workers consumed two tasks, the handler raised on the second of each: two
\* replies and two acks per worker, nothing left in the batch
C21_Witness_HandlerRaised ==
    /\ wk_batch = <<>>
    /\ \A b \in WorkerBots :
          /\ wk_off[b] = 2
          /\ Len(wk_outbox[b]) = 2
          /\ ~ErrorReply(b, wk_outbox[b][1])
          /\ ErrorReply(b, wk_outbox[b][2])
          /\ wk_ack[b][1].status = "ok"
          /\ wk_ack[b][2].status = "error"

\* C22 (as claimed): at most one gamble worker process is in its poll loop at any
\* time, also when several start while the lock of a dead process exists.
C22_AtMostOneInPollLoop ==
    Cardinality({p \in GambleProcs : gl_pc[p] = "loop"}) <= 1

\* no entry of the bots list for this id declares ha = active_standby
NoHa(id) == \A i \in 1..Len(sv_cfg) : sv_cfg[i].id = id => sv_cfg[i].ha # "active_standby"

\* the worker is launched at all: workers are wanted, the bot has an enabled entry and
\* its worker.py exists
Launched(id) ==
    /\ ~sv_args.no_workers
    /\ id \in sv_args.scripts
    /\ \E i \in 1..Len(sv_cfg) : sv_cfg[i].id = id /\ sv_cfg[i].enabled

ProcsOf(id) == {n \in sv_procs[1] : n[1] = id}

\* C23: for a worker whose configuration does not declare ha = active_standby, and
\* without --allow-duplicate-inbox, the supervisor registers exactly one process when
\* it launches the worker at all (and none otherwise), whatever instances says.
C23_OneProcessWithoutHa ==
    sv_procs # <<>>
    => \A id \in SupBots :
          (NoHa(id) /\ ~sv_args.allow_duplicate_inbox)
          => ProcsOf(id) = (IF Launched(id) THEN {<<id, 0>>} ELSE {})

\* instances = 2 without ha gave one gamble process; with active_standby it gave two
\* music processes
C23_Witness_TwoConfiguredOneBuilt ==
    /\ sv_procs # <<>>
    /\ Len(sv_cfg) = 2
    /\ sv_cfg[1] = [id |-> "gamble", enabled |-> TRUE, ha |-> "", instances |-> 2]
    /\ sv_cfg[2] = [id |-> "spotify", enabled |-> TRUE, ha |-> "active_standby", instances |-> 2]
    /\ ~sv_args.allow_duplicate_inbox
    /\ sv_procs[1] = {<<"gamble", 0>>, <<"spotify", 0>>, <<"spotify", 1>>}

\* the restarts of process p in the window of restart_window_sec seconds ending at t
RestartsInWindow(p, t) ==
    Cardinality({j \in 1..Len(sv_log[p]) :
                    sv_log[p][j] <= t /\ t - sv_log[p][j] <= restart_window_sec})

\* C24: whatever the reason, every window of restart_window_sec seconds holds at most
\* max_restarts restarts of a supervised process (it is enough to look at the windows
\* that end at a restart).
C24_RestartsLimitedPerWindow ==
    \A p \in SupProcs : \A i \in 1..Len(sv_log[p]) :
        RestartsInWindow(p, sv_log[p][i]) <= max_restarts

\* the worker was restarted twice within the window, exited again and was left down:
\* the call for the third restart changed nothing
C24_Witness_LimitReached ==
    /\ sv_log["W.gamble#0"] = <<1, 2>>
    /\ sv_now = 3
    /\ ~sv_up["W.gamble#0"]
    /\ sv_restarts["W.gamble#0"] = <<1, 2>>
    /\ RestartsInWindow("W.gamble#0", sv_now) = max_restarts

\* the step handles a reply intent for a platform with an outbound chat
HandlesSendable ==
    /\ \E ok \in BOOLEAN : EmitterRecord(ok)
    /\ ~is_overlay_only(Head(em_batch).platform)

SentOnly == em_sent' = Append(em_sent, Head(em_batch).id) /\ em_overlay' = em_overlay
OverlayOnly ==
    em_sent' = em_sent /\ em_overlay' = Append(em_overlay, ChatRecord(Head(em_batch)))
Dropped == em_sent' = em_sent /\ em_overlay' = em_overlay

\* C25 (as claimed): every consumed reply intent for a platform that is not
\* overlay-only is delivered by exactly one route: accepted by the relay and not
\* appended, or (sending disabled or failed) appended to the overlay chat file.
C25_ExactlyOneRoute ==
    [][HandlesSendable
       => /\ SentOnly \/ OverlayOnly
          /\ (~em_cfg.ssn_enabled) => OverlayOnly]_vars

\* C25 (amended): with the overlay fallback enabled and its chat file configured, the
\* intent is delivered by exactly one route, the overlay file when sending is disabled,
\* has no session or failed; without the fallback, an intent that is not sent is
\* delivered by neither route.
C25_OneRouteWhenFallbackConfigured ==
    [][HandlesSendable
       => IF em_cfg.overlay_enabled /\ em_cfg.has_chat_file
          THEN /\ SentOnly \/ OverlayOnly
               /\ (~em_cfg.ssn_enabled \/ ~em_cfg.has_session) => OverlayOnly
          ELSE /\ SentOnly \/ Dropped
               /\ (~em_cfg.ssn_enabled \/ ~em_cfg.has_session) => Dropped]_vars

\* with sending and the fallback configured, the first intent was accepted by the relay
\* and the second, refused, went to the overlay chat file
C25_Witness_SentThenFallback ==
    /\ em_cfg.ssn_enabled /\ em_cfg.has_session
    /\ em_cfg.overlay_enabled /\ em_cfg.has_chat_file
    /\ em_off = 2
    /\ em_batch = <<>>
    /\ em_sent = <<1>>
    /\ em_overlay = <<[type |-> "chat", platform |-> "youtube", id |-> 2]>>

\* the complete lines of the file that end at or before byte off
LinesBefore(off) == Cardinality({i \in 1..off : tl_file[i] = NL})

\* C28 (as claimed): a reader's offset is only ever just behind a complete line, so a
\* partial line at the end of the file is neither consumed nor skipped, and the reader
\* has been given exactly the records of the complete lines behind its offset.
C28_OffsetOnlyPastCompleteLines ==
    \A r \in TailReaders :
        /\ tl_off[r] = 0 \/ tl_file[tl_off[r]] = NL
        /\ tl_got[r] = [i \in 1..LinesBefore(tl_off[r]) |-> ToString(i)]


\* ---------------------------------------------------------------------------
\* C32 (as claimed): in every router state the wagers a user holds (the bets of
\* their queued tasks and of the active task when it is theirs) do not exceed the
\* user's current points.
C32_ReservedWithinPoints ==
    \A u \in DOMAIN user_state :
        reserved_points_for_user(gq, u) <= user_state[u].points


\* C33 (as claimed): every record of the points ledger satisfies
\* after = before + delta.
C33_LedgerRecordBalances ==
    \A i \in 1..Len(ledger) : ledger[i].after = ledger[i].before + ledger[i].delta


\* the spins that did not happen: the handler raised, or the worker refused the task
NoSpinCodes == {"ERROR", "INVALID_BET", "UNKNOWN_GAME"}

\* C34 (as claimed): when the router polls the gamble outbox and finds, for the active
\* task, a reply whose result_code is ERROR, INVALID_BET or UNKNOWN_GAME, it empties
\* the active slot and leaves the user's points as they were.
C34_FailedSpinNotCharged ==
    [][(/\ PollBotOutboxes
        /\ gq.active # <<>>
        /\ Len(Unread("gamble")) = 1
        /\ Unread("gamble")[1].task_id = gq.active[1].task_id
        /\ Unread("gamble")[1].game.result_code \in NoSpinCodes)
       => /\ gq'.active = <<>>
          /\ user_state'[gq.active[1].user_key].points = PointsOf(gq.active[1].user_key)]_vars


\* the points the earning tick gives a user in this step
Awarded(u) == user_state'[u].points - user_state[u].points

\* C35 (as claimed): a user who was last seen when the router started and returns
\* after more than active_window_seconds is awarded, by the next earning tick, at most
\* the minutes they were within the active window: the window that followed the start
\* and the time since their return, not the minutes of the absence between the two.
C35_NoAwardForInactiveTime ==
    [][AwardTick
       => \A u \in DOMAIN user_state :
             (/\ user_state[u].last_award_ts = StartTime
              /\ user_state[u].last_seen_ts > StartTime + active_window_seconds)
             => Awarded(u) <= points_per_minute_active
                                * ((active_window_seconds + (now - user_state[u].last_seen_ts))
                                     \div 60)]_vars


\* C31 (as claimed): a worker process that started without an offsets.json handles no
\* record that was in its inbox before it started.
C31_NoTaskFromBeforeStartup ==
    \A p \in BootProcs :
        bt_seeded[p] # <<>>
        => \A k \in 1..Len(bt_handled[p]) : bt_handled[p][k] > bt_seeded[p][1]

\* C36 (as claimed): no inbox record is handled, and replied to, by two processes of
\* the music worker: the process that takes over continues behind the last record
\* its predecessor handled.
C36_NoTaskHandledByBothLeaders ==
    \A p, q \in BootProcs :
        (p # q /\ BotOf(p) = "spotify" /\ BotOf(q) = "spotify")
        => \A i \in 1..Len(bt_handled[p]), j \in 1..Len(bt_handled[q]) :
              bt_handled[p][i] # bt_handled[q][j]


\* the ledger record of the gamble completion written last
LastCompletion == CHOOSE i \in 1..Len(ledger) :
                      /\ ledger[i].note = "slots"
                      /\ \A j \in (i + 1)..Len(ledger) : ledger[j].note # "slots"

\* C39 (as claimed): when the router is killed and started again with the queue file
\* showing the last gamble task as completed (active = null), the persisted user
\* state holds the points that completion left: if the user's points stood at the
\* completion's result when the router died, they stand there after the restart.
C39_CompletionSurvivesCrash ==
    [][(/\ RouterCrash
        /\ gq.active = <<>>
        /\ \E i \in 1..Len(ledger) : ledger[i].note = "slots"
        /\ PointsOf(ledger[LastCompletion].user_key) = ledger[LastCompletion].after)
       => user_state'[ledger[LastCompletion].user_key].points
              = ledger[LastCompletion].after]_vars

\* C38 (as claimed): with the router and the gamble worker running, or started again
\* after a kill, a task in the active slot is eventually completed: the slot becomes
\* empty again.
C38_ActiveEventuallyCleared == (gq.active # <<>>) ~> (gq.active = <<>>)

\* C40 (as claimed): two restarts of a component for staleness are at least the stale
\* threshold apart.
C40_StaleRestartsThresholdApart ==
    \A p \in SupProcs :
        \A i \in 1..(Len(sv_log[p]) - 1) :
            sv_log[p][i + 1] - sv_log[p][i]
                >= (IF p = "CM.router_bank" THEN stale_services ELSE stale_workers)


\* the events the router has read: the records of events.inbox behind its cursor
EventsRead ==
    {i \in 1..Len(bus_file["events_in"]) :
        SumLen(SubSeq(bus_file["events_in"], 1, i)) <= mem_off["router"]}

\* C37 (as claimed): every event record behind the router's cursor has been passed to
\* process_event, also when process_event raised on an earlier record of the same read.
C37_EveryReadEventProcessed ==
    \A i \in EventsRead :
        \E j \in 1..Len(processed["router"]) :
            processed["router"][j] = bus_file["events_in"][i].id

====
